---- MODULE Spec2Model ----
(***************************************************************************)
(* A model of the AI news aggregation pipeline: the cascading list-fetch   *)
(* chain (news_extractor.py, enhanced_content_fetcher.py), the two         *)
(* de-duplication passes, the LLM-assisted curation (llm_test.py) and the  *)
(* orchestrator (main_pipeline.py).                                        *)
(*                                                                         *)
(* Text is modelled as a sequence of tokens.  A token is one character     *)
(* ("8", "/", ":", " ") or an atomic word whose inner characters no        *)
(* operation of the program looks at ("Quality", "https://", "news").      *)
(***************************************************************************)
EXTENDS Integers, Sequences, FiniteSets, TLC

VARIABLES
    \* ---- OllamaManager.analyze_article_quality (one call) ----
    svc,          \* how the generation service behaves during the call
    analysis,     \* the record the call returned
    apc,          \* "idle" | "returned" | "raised"
    \* ---- OllamaManager.curate_articles / select_top_articles ----
    cin,          \* the list `articles` the call was given
    centry,       \* the method called: "curate_articles" | "select_top_articles"
    ccount,       \* the `count` argument of select_top_articles
    ci,           \* loop position: the article being analysed
    curated,      \* curated_articles: filled by the loop, then sorted and returned
    selected,     \* the list select_top_articles returned
    cpc,          \* "idle" | "loop" | "returned" | "raised"
    \* ---- EnhancedNewsExtractor.extract_from_website (one source) ----
    fsrc,         \* source_name
    articles,     \* the list `articles` the strategies extend
    calls,        \* the strategies invoked so far, in order, with what each met
    unique,       \* unique_articles: the URL pass's output, before enhancement
    fetched,      \* the list extract_from_website returned
    wire,         \* the requests sent and the delays taken for the source, in order
    fpc,          \* "idle" | "rss" | "basic" | "selenium" | "finish" | "returned" | "raised"
    \* ---- NewsAggregationPipeline.run_complete_pipeline ----
    ppc,          \* "idle" | "sources" | "curating" | "store" | "insights" | "report" | "done"
    si,           \* index of the source extract_multiple_sources is at
    results,      \* all_results, in the order of the sources
    all_articles, \* the list process_and_filter_articles hands to curation
    filtered,     \* filtered_articles
    steps,        \* the pipeline steps entered so far
    storage,      \* "none" | "ok" | "failed": storage_result
    run_result,   \* what the entry point returned: "none" | "true" | "false" | "0" | "1" | "interrupted"
    closed,       \* whether scraper.close() has run
    enabled,      \* the names of Config.NEWS_SOURCES whose `enabled` flag is set
    interrupted,  \* whether a KeyboardInterrupt was raised during the run
    \* ---- one call of a function without side effects ----
    ufn,          \* the function called, "none" before the call
    uin,          \* its argument
    uout          \* what it returned

avars == <<svc, analysis, apc>>

cvars == <<cin, centry, ccount, ci, curated, selected, cpc>>

fvars == <<fsrc, articles, calls, unique, fetched, wire, fpc>>

pvars == <<ppc, si, results, all_articles, filtered, steps, storage, run_result, closed, enabled, interrupted>>

uvars == <<ufn, uin, uout>>

vars == <<avars, cvars, fvars, pvars, uvars>>

(***************************************************************************)
(* Bounds of the model.                                                    *)
(***************************************************************************)
MaxLines == 2        \* lines in one reply of the generation service
MaxArticles == 3     \* articles handed to one curate_articles call
MaxCount == 2        \* the largest `count` asked of select_top_articles
MaxFeed == 6         \* entries in a feed
MaxLinks == 3        \* links in a static page
MaxContainers == 4   \* article containers in a rendered page
MaxPipeFeed == 3     \* entries in a feed, in a whole run
MaxDedup == 3        \* articles in a list handed to a title pass alone

MaxTrendArticles == 2      \* articles handed to detect_trends

MaxElements == 3           \* elements of a document handed to _extract_article_text

MaxRssFeed == 17           \* entries of a feed handed to extract_from_rss alone

MaxStaticLinks == 3        \* links of a page handed to find_actual_article_urls alone

MaxInsightLines == 3       \* lines of a reply handed to parse_detailed_insights

MaxEnhance == 3            \* candidates handed to enhance_articles_with_content alone

(***************************************************************************)
(* Python string operations on token sequences.                            *)
(***************************************************************************)
Whitespace == {" "}

Digits == {"0", "1", "2", "3", "4", "5", "6", "7", "8", "9"}

DigitValue(d) ==
    CASE d = "0" -> 0 [] d = "1" -> 1 [] d = "2" -> 2 [] d = "3" -> 3
      [] d = "4" -> 4 [] d = "5" -> 5 [] d = "6" -> 6 [] d = "7" -> 7
      [] d = "8" -> 8 [] d = "9" -> 9

RECURSIVE LStrip(_)
LStrip(s) ==
    IF s # <<>> /\ Head(s) \in Whitespace THEN LStrip(Tail(s)) ELSE s

RECURSIVE RStrip(_)
RStrip(s) ==
    IF s # <<>> /\ s[Len(s)] \in Whitespace
    THEN RStrip(SubSeq(s, 1, Len(s) - 1))
    ELSE s

\* str.strip()
Strip(s) == RStrip(LStrip(s))

\* index of the first occurrence of token c in s, 0 when there is none
RECURSIVE IndexFrom(_, _, _)
IndexFrom(s, c, i) ==
    IF i > Len(s) THEN 0
    ELSE IF s[i] = c THEN i
    ELSE IndexFrom(s, c, i + 1)

\* str.split(c): the list of the segments between the occurrences of c
RECURSIVE Split(_, _)
Split(s, c) ==
    LET i == IndexFrom(s, c, 1)
    IN  IF i = 0 THEN <<s>>
        ELSE <<SubSeq(s, 1, i - 1)>> \o Split(SubSeq(s, i + 1, Len(s)), c)

\* str.split(c, 1): at most one split
SplitOnce(s, c) ==
    LET i == IndexFrom(s, c, 1)
    IN  IF i = 0 THEN <<s>>
        ELSE <<SubSeq(s, 1, i - 1), SubSeq(s, i + 1, Len(s))>>

\* str.startswith(p)
StartsWith(s, p) ==
    Len(s) >= Len(p) /\ SubSeq(s, 1, Len(p)) = p

RECURSIVE DigitsValue(_, _)
DigitsValue(s, acc) ==
    IF s = <<>> THEN acc
    ELSE DigitsValue(Tail(s), acc * 10 + DigitValue(Head(s)))

\* int(s): surrounding whitespace is ignored, then an optional sign and at
\* least one digit and nothing else; anything else raises ValueError.
ParseInt(s) ==
    LET t == Strip(s)
        signed == t # <<>> /\ Head(t) \in {"-", "+"}
        body == IF signed THEN Tail(t) ELSE t
        ok == body # <<>> /\ \A k \in 1..Len(body) : body[k] \in Digits
    IN  IF ok
        THEN [ok |-> TRUE,
              value |-> IF signed /\ Head(t) = "-"
                        THEN 0 - DigitsValue(body, 0)
                        ELSE DigitsValue(body, 0)]
        ELSE [ok |-> FALSE, value |-> 0]

Max(a, b) == IF a >= b THEN a ELSE b

Min(a, b) == IF a <= b THEN a ELSE b

(***************************************************************************)
(* The generation service (Ollama) as OllamaManager sees it.               *)
(***************************************************************************)
\* The lines a reply is made of.
ReplyLines ==
    { <<"Quality", ":", " ", "8", "/", "1", "0">>,
      <<"Quality", ":", " ", "1", "5", "/", "1", "0">>,
      <<"Quality", ":", " ", "-", "3", "/", "1", "0">>,
      <<"Quality", ":", " ", "0", "/", "1", "0">>,
      <<"Quality", ":", " ", "eight">>,
      <<"Quality", ":", " ", "8", ".", "5", "/", "1", "0">>,
      <<"Quality", ":">>,
      <<"Quality", ":", " ", "7", ":", "3", "0", "/", "1", "0">>,
      <<"Quality", " ", "8">>,
      <<" ", "Quality", ":", "6", " ", "/", "1", "0", " ">>,
      <<"quality", ":", " ", "9", "/", "1", "0">>,
      <<"Relevance", ":", " ", "7", "/", "1", "0">>,
      <<"Relevance", ":", " ", "1", "2">>,
      <<"Relevance", ":", " ", "about", " ", "8", "/", "1", "0">>,
      <<"RELEVANCE", ":", " ", "9">>,
      <<"Category", ":", " ", "Research">>,
      <<"Insights", ":", " ", "new", " ", "model">>,
      <<"Reason", ":", " ", "solid", ":", "sourced">>,
      <<"I", " ", "cannot", " ", "rate", " ", "8", "/", "1", "0">>,
      <<" ">> }

\* Every reply text of at most n lines.
RECURSIVE TextsUpTo(_)
TextsUpTo(n) ==
    IF n = 0 THEN {<<>>}
    ELSE LET shorter == TextsUpTo(n - 1)
         IN  shorter \cup
             {Append(t, l) : t \in {u \in shorter : Len(u) = n - 1}, l \in ReplyLines}

VersionOutcomes == {"ok", "non200", "exception"}

TagsOutcomes == {"has_model", "no_model", "non200", "exception"}

GenerateOutcomes == {"ok", "non200", "exception"}

\* One behaviour of the service during one generate_response call: the
\* outcome of GET /api/version, of GET /api/tags, of POST /api/generate and
\* the 'response' text of a 200 reply (<<>> also when the key is missing).
ServiceBehaviours(texts) ==
    { [version |-> v, tags |-> t, generate |-> g, text |-> <<>>] :
        v \in VersionOutcomes, t \in TagsOutcomes, g \in GenerateOutcomes }
    \cup
    { [version |-> "ok", tags |-> "has_model", generate |-> "ok", text |-> x] :
        x \in texts }

NoBehaviour == [version |-> "none", tags |-> "none", generate |-> "none", text |-> <<>>]

\* What a call returns: a string, None, or no value because it raised.
None == [some |-> FALSE, text |-> <<>>, raised |-> FALSE]

Some(t) == [some |-> TRUE, text |-> t, raised |-> FALSE]

Raised == [some |-> FALSE, text |-> <<>>, raised |-> TRUE]

\* a test for None only: `if response is not None`
TruthyNotNone(r) == r.some

\* bool(x) of an Optional[str]
Truthy(r) == r.some /\ r.text # <<>>

is_available(b) == b.version = "ok"

ensure_model_available(b) == b.tags = "has_model"

\* str.strip() of a multi-line text: blank lines at both ends go, and so does
\* the whitespace before the first and after the last remaining character.
RECURSIVE DropBlankHead(_)
DropBlankHead(t) ==
    IF t # <<>> /\ Strip(Head(t)) = <<>> THEN DropBlankHead(Tail(t)) ELSE t

RECURSIVE DropBlankLast(_)
DropBlankLast(t) ==
    IF t # <<>> /\ Strip(t[Len(t)]) = <<>>
    THEN DropBlankLast(SubSeq(t, 1, Len(t) - 1))
    ELSE t

StripText(t) ==
    LET u == DropBlankLast(DropBlankHead(t))
    IN  IF u = <<>> THEN <<>>
        ELSE IF Len(u) = 1 THEN <<Strip(u[1])>>
        ELSE <<LStrip(u[1])>> \o SubSeq(u, 2, Len(u) - 1) \o <<RStrip(u[Len(u)])>>

\* generate_response without its try/except around the POST
generate_response_uncaught(b) ==
    IF ~is_available(b) THEN None
    ELSE IF ~ensure_model_available(b) THEN None
    ELSE IF b.generate = "ok" THEN Some(StripText(b.text))
    ELSE IF b.generate = "exception" THEN Raised
    ELSE None

\* The request is inside try/except Exception: a failure of the POST
\* (timeout, connection error, a body that is not JSON) returns None.
generate_response(b) ==
    IF ~is_available(b) THEN None
    ELSE IF ~ensure_model_available(b) THEN None
    ELSE IF b.generate = "ok" THEN Some(StripText(b.text))
    ELSE None

(***************************************************************************)
(* OllamaManager._parse_quality_analysis and analyze_article_quality.      *)
(***************************************************************************)
DefaultScore == 5

MinScore == 1

MaxScore == 10

FallbackAnalysis ==
    [quality_score |-> DefaultScore,
     relevance_score |-> DefaultScore,
     category |-> <<"AI/ML">>,
     insights |-> << <<"Unable to analyze with LLM">> >>,
     reason |-> <<"LLM analysis failed">>,
     llm_analysis |-> FALSE,
     raw_response |-> <<>>]          \* the fallback has no raw_response key

NoAnalysis ==
    [quality_score |-> 0, relevance_score |-> 0, category |-> <<>>,
     insights |-> <<>>, reason |-> <<>>, llm_analysis |-> FALSE,
     raw_response |-> <<>>]

\* int(line.split(':')[1].split('/')[0].strip())
ScoreOfLine(line) == ParseInt(Strip(Split(Split(line, ":")[2], "/")[1]))

\* a parser that forgets the clamp
ClampMissing(score) == score

Clamp(score) == Max(MinScore, Min(MaxScore, score))

\* line.split(':', 1)[1].strip()
ValueOfLine(line) == Strip(SplitOnce(line, ":")[2])

\* one iteration of the loop over the lines
ParseLine(result, rawline) ==
    LET line == Strip(rawline)
    IN  IF StartsWith(line, <<"Quality", ":">>)
        THEN IF ScoreOfLine(line).ok
             THEN [result EXCEPT !.quality_score = Clamp(ScoreOfLine(line).value)]
             ELSE result
        ELSE IF StartsWith(line, <<"Relevance", ":">>)
        THEN IF ScoreOfLine(line).ok
             THEN [result EXCEPT !.relevance_score = Clamp(ScoreOfLine(line).value)]
             ELSE result
        ELSE IF StartsWith(line, <<"Category", ":">>)
        THEN [result EXCEPT !.category = ValueOfLine(line)]
        ELSE IF StartsWith(line, <<"Insights", ":">>)
        THEN [result EXCEPT !.insights = <<ValueOfLine(line)>>]
        ELSE IF StartsWith(line, <<"Reason", ":">>)
        THEN [result EXCEPT !.reason = ValueOfLine(line)]
        ELSE result

RECURSIVE ParseLines(_, _)
ParseLines(result, lines) ==
    IF lines = <<>> THEN result
    ELSE ParseLines(ParseLine(result, Head(lines)), Tail(lines))

parse_quality_analysis(response) ==
    ParseLines([quality_score |-> DefaultScore,
                relevance_score |-> DefaultScore,
                category |-> <<"AI/ML">>,
                insights |-> <<>>,
                reason |-> <<>>,
                llm_analysis |-> TRUE,
                raw_response |-> response],
               StripText(response))

\* a call that posts the generate request without looking for the model
generate_requests_unchecked(b) ==
    <<"version">> \o (IF is_available(b) THEN <<"generate">> ELSE <<>>)

\* the requests one call of generate_response sends, in order: GET
\* /api/version (is_available), GET /api/tags (list_models), POST /api/generate
generate_requests(b) ==
    <<"version">>
       \o (IF is_available(b)
           THEN <<"tags">> \o (IF ensure_model_available(b) THEN <<"generate">> ELSE <<>>)
           ELSE <<>>)

\* analyze_article_quality has no handler of its own: what
\* generate_response raises, it raises.
analyze_raises(b) == generate_response(b).raised

analyze_article_quality(b) ==
    LET response == generate_response(b)
    IN  IF Truthy(response)
        THEN parse_quality_analysis(response.text)
        ELSE FallbackAnalysis

\* (quality + relevance) / 2, kept in tenths: 5.0 is 50, 7.5 is 75
FinalScore(a) == ((a.quality_score + a.relevance_score) * 10) \div 2

(***************************************************************************)
(* One call of analyze_article_quality.                                    *)
(***************************************************************************)
AnalyzeIdle ==
    /\ svc = NoBehaviour
    /\ analysis = NoAnalysis
    /\ apc = "idle"

AnalyzeArticleQuality(behaviours) ==
    /\ apc = "idle"
    /\ \E b \in behaviours :
          /\ svc' = b
          /\ IF analyze_raises(b)
             THEN analysis' = NoAnalysis /\ apc' = "raised"
             ELSE analysis' = analyze_article_quality(b) /\ apc' = "returned"

(***************************************************************************)
(* Articles: the dicts the pipeline passes from stage to stage.            *)
(***************************************************************************)
\* n copies of the token c
Rep(c, n) == [k \in 1..n |-> c]

NoScore == 0 - 1     \* the dict has no final_score key

Article(title, url, summary, source, method) ==
    [title |-> title,
     url |-> url,
     summary |-> summary,
     source |-> source,
     category |-> <<"AI/ML">>,
     extraction_method |-> method,
     content_extracted |-> "absent",
     extraction_error |-> <<>>,
     llm_analysis |-> NoAnalysis,
     final_score |-> NoScore]

\* occurrences of x in the list s
RECURSIVE Count(_, _)
Count(s, x) ==
    IF s = <<>> THEN 0
    ELSE (IF Head(s) = x THEN 1 ELSE 0) + Count(Tail(s), x)

Range(s) == {s[k] : k \in 1..Len(s)}

\* s[:n]
Take(s, n) == SubSeq(s, 1, Min(n, Len(s)))

(***************************************************************************)
(* OllamaManager.curate_articles and select_top_articles.                  *)
(***************************************************************************)
SelectThreshold == 60      \* final_score >= 6.0, in tenths

\* list.sort(key=final_score, reverse=True): a stable sort, equal scores keep
\* their order.  InsertByScore puts a behind every element that is not smaller.
\* an insertion that puts an article before those of the same score
RECURSIVE InsertBeforeTies(_, _)
InsertBeforeTies(sorted, a) ==
    IF sorted = <<>> THEN <<a>>
    ELSE IF Head(sorted).final_score > a.final_score
         THEN <<Head(sorted)>> \o InsertBeforeTies(Tail(sorted), a)
         ELSE <<a>> \o sorted

RECURSIVE InsertByScore(_, _)
InsertByScore(sorted, a) ==
    IF sorted = <<>> THEN <<a>>
    ELSE IF Head(sorted).final_score >= a.final_score
         THEN <<Head(sorted)>> \o InsertByScore(Tail(sorted), a)
         ELSE <<a>> \o sorted

RECURSIVE SortByScoreFrom(_, _)
SortByScoreFrom(sorted, rest) ==
    IF rest = <<>> THEN sorted
    ELSE SortByScoreFrom(InsertByScore(sorted, Head(rest)), Tail(rest))

SortByFinalScore(s) == SortByScoreFrom(<<>>, s)

\* a scoring that leaves a final_score the article already carries
ScoredKeepsOwn(article, a) ==
    IF article.final_score # NoScore
    THEN [article EXCEPT !.llm_analysis = a]
    ELSE [article EXCEPT !.llm_analysis = a, !.final_score = FinalScore(a)]

\* article['llm_analysis'] = analysis; article['final_score'] = ...
Scored(article, a) ==
    [article EXCEPT !.llm_analysis = a, !.final_score = FinalScore(a)]

HighQuality(a) == a.final_score >= SelectThreshold

\* high_quality[:count] of the curated list
SelectTop(sorted, count) == Take(SelectSeq(sorted, HighQuality), count)

\* the three entry points of the loop; batch_analyze_articles runs it batch
\* by batch (ccount is then batch_size) and sorts the whole list at the end
CurateEntries == {"curate_articles", "select_top_articles", "batch_analyze_articles"}

CurateIdle ==
    /\ cin = <<>>
    /\ centry = "none"
    /\ ccount = 0
    /\ ci = 0
    /\ curated = <<>>
    /\ selected = <<>>
    /\ cpc = "idle"

\* The call: `if not articles: return []`, else the loop starts.
CurateCall(entry, arts, count) ==
    /\ cpc = "idle"
    /\ cin' = arts
    /\ centry' = entry
    /\ ccount' = count
    /\ curated' = <<>>
    /\ selected' = <<>>
    /\ IF arts = <<>>
       THEN ci' = 0 /\ cpc' = "returned"
       ELSE ci' = 1 /\ cpc' = "loop"

\* One iteration of `for i, article in enumerate(articles)`; the last one
\* falls through to the sort and, in select_top_articles, to the filter and
\* the slice.  The article is a dict of the caller's list, which therefore
\* holds the scored article too, at its own place: the sort orders the new
\* list only.
CurateIteration(behaviours) ==
    /\ cpc = "loop"
    /\ \E b \in behaviours :
          IF analyze_raises(b)
          THEN /\ cpc' = "raised"
               /\ UNCHANGED <<cin, ci, curated, selected>>
          ELSE LET scored == Scored(cin[ci], analyze_article_quality(b))
                   appended == Append(curated, scored)
               IN  /\ cin' = [cin EXCEPT ![ci] = scored]
                   /\ IF ci < Len(cin)
                      THEN /\ ci' = ci + 1
                           /\ curated' = appended
                           /\ UNCHANGED <<selected, cpc>>
                      ELSE /\ ci' = ci
                           /\ curated' = SortByFinalScore(appended)
                           /\ selected' = IF centry = "select_top_articles"
                                          THEN SelectTop(SortByFinalScore(appended), ccount)
                                          ELSE <<>>
                           /\ cpc' = "returned"
    /\ UNCHANGED <<centry, ccount>>

(***************************************************************************)
(* Titles and URLs.  A title is a sequence of characters; the titles the   *)
(* strategies produce are stripped (feedparser and get_text(strip=True)    *)
(* strip them).  A URL is a sequence of tokens: the scheme, the host and   *)
(* the path pieces; a piece such as "/news/" is one token.                 *)
(***************************************************************************)
TitleA == Rep("a", 16)

TitleAUpper == <<"A">> \o Rep("a", 15)        \* TitleA in another letter case

TitleB == Rep("b", 20)

Title15 == Rep("c", 15)

Title11 == Rep("d", 11)

Title10 == Rep("e", 10)

NoTitle == <<"N", "o", " ", "t", "i", "t", "l", "e">>

NoTitleFound == <<"N", "o", " ", "t", "i", "t", "l", "e", " ", "f", "o", "u", "n", "d">>

PageTitle == Rep("h", 18)                     \* the <h1> of an article page

\* str.lower(), token by token
LowerToken(t) ==
    CASE t = "A" -> "a" [] t = "B" -> "b" [] t = "N" -> "n"
      [] t = "/Categories/" -> "/categories/"
      [] OTHER -> t

Lower(s) == [k \in 1..Len(s) |-> LowerToken(s[k])]

\* the patterns of the program's substring tests that occur inside a token
Holds(t) ==
    CASE t = "https://" -> {"/"}
      [] t = "/" -> {"/"}
      [] t = "/news/" -> {"/news/", "/"}
      [] t = "/article/" -> {"/article/", "/"}
      [] t = "/2025/" -> {"/2025/", "/"}
      [] t = "/2024/" -> {"/2024/", "/"}
      [] t = "/categories/" -> {"/categories/", "/"}
      [] t = "/Categories/" -> {"/"}
      [] t = "/category/" -> {"/category/", "/category", "/"}
      [] t = "/tags/" -> {"/tags/", "/tag", "/"}
      [] t = "/tag/" -> {"/tag/", "/tag", "/"}
      [] t = "/about" -> {"/about", "/"}
      [] t = "/contact" -> {"/contact", "/"}
      [] t = "/ai/" -> {"/"}
      [] t = "javascript:" -> {"javascript:"}
      [] t = "#" -> {"#"}
      [] t = "www.kdnuggets.com" -> {"kdnuggets.com", "kdnuggets"}
      [] t = "thenewstack.io" -> {"thenewstack.io", "thenewstack"}
      [] t = "artificialintelligence-news.com" -> {"artificialintelligence-news"}
      [] OTHER -> {}

\* `pattern in text`
Contains(text, pattern) == \E k \in 1..Len(text) : pattern \in Holds(text[k])

ContainsAny(text, patterns) == \E q \in patterns : Contains(text, q)

\* str.startswith('/')
StartsWithSlash(href) ==
    href # <<>> /\ "/" \in Holds(href[1]) /\ href[1] # "https://"

Schemes == {"https://", "http://"}

\* a URL with an http(s) scheme and a host
IsAbsolute(url) == Len(url) >= 2 /\ url[1] \in Schemes

\* urlparse(url).netloc
Netloc(url) == IF IsAbsolute(url) THEN url[2] ELSE ""

\* urljoin(base, href) for the bases of the configured sources, which end in "/"
UrlJoin(base, href) ==
    IF href = <<>> THEN base
    ELSE IF href[1] \in Schemes \cup {"javascript:"} THEN href
    ELSE IF StartsWithSlash(href) THEN <<base[1], base[2]>> \o href
    ELSE base \o href

(***************************************************************************)
(* Config.NEWS_SOURCES and the feed table of extract_from_website.         *)
(***************************************************************************)
SourceOrder == <<"kdnuggets", "ai_news", "the_new_stack">>

SourceUrl(name) ==
    CASE name = "kdnuggets" -> <<"https://", "www.kdnuggets.com", "/">>
      [] name = "ai_news" -> <<"https://", "artificialintelligence-news.com", "/">>
      [] name = "the_new_stack" -> <<"https://", "thenewstack.io", "/ai/">>
      [] OTHER -> <<"https://", "example.org", "/">>      \* a site outside the table

RssSources == {"kdnuggets", "the_new_stack"}

MinArticles == 5           \* `if len(articles) < 5`

Ok(items) == [raised |-> FALSE, items |-> items]

Raise == [raised |-> TRUE, items |-> <<>>]

(***************************************************************************)
(* Strategy 1: EnhancedNewsExtractor.extract_from_rss.                     *)
(***************************************************************************)
RssLimit == 15

\* what feedparser gives for a feed: whether parsing raised, and the entries
FeedEntry(title, has_title, link, has_link) ==
    [title |-> title, has_title |-> has_title, link |-> link, has_link |-> has_link]

RssArticle(e, source) ==
    Article(IF e.has_title THEN e.title ELSE NoTitle,
            e.link, <<"feed summary">>, source, "rss_basic")

\* a feed fetch that takes every entry of the feed
extract_from_rss_unlimited(feed, source) ==
    IF feed.parse_raises \/ \E k \in 1..Len(feed.entries) : ~feed.entries[k].has_link
    THEN Ok(<<>>)
    ELSE Ok([k \in 1..Len(feed.entries) |-> RssArticle(feed.entries[k], source)])

\* the whole body is inside try/except Exception: an entry without a link
\* (AttributeError) or a parse error gives []
extract_from_rss(feed, source) ==
    LET entries == Take(feed.entries, RssLimit)
    IN  IF feed.parse_raises \/ \E k \in 1..Len(entries) : ~entries[k].has_link
        THEN Ok(<<>>)
        ELSE Ok([k \in 1..Len(entries) |-> RssArticle(entries[k], source)])

(***************************************************************************)
(* Strategy 2: extract_from_website_basic over                             *)
(* SmartContentFetcher.find_actual_article_urls.                           *)
(***************************************************************************)
StaticLimit == 15

TitleMinLen == 15

Link(href, text, ctx) == [href |-> href, text |-> text, ctx |-> ctx]

Sel(ctx, has) == [ctx |-> ctx, has |-> has]

\* the CSS selectors, as (ancestor or class, substring the href must hold)
Selectors(site) ==
    CASE site = "ai_news" ->
           << Sel("article", ""), Sel("post-title", ""), Sel("entry-title", ""),
              Sel("h2", ""), Sel("h3", ""), Sel("news-item", ""),
              Sel("a", "/news/"), Sel("a", "/article/"),
              Sel("a", "/2025/"), Sel("a", "/2024/") >>
      [] site = "kdnuggets" ->
           << Sel("article", "/"), Sel("post-title", ""), Sel("h2", ""),
              Sel("h3", ""), Sel("a", "/2025/"), Sel("a", "/2024/") >>
      [] site = "thenewstack" ->
           << Sel("article", ""), Sel("story-title", ""), Sel("h2", ""), Sel("h3", "") >>
      [] OTHER -> << Sel("a", "") >>

Matches(link, sel) ==
    /\ sel.ctx = "a" \/ sel.ctx \in link.ctx
    /\ sel.has = "" \/ Contains(link.href, sel.has)

\* the site extractor find_actual_article_urls picks from base_url
SiteOf(base) ==
    IF Contains(base, "artificialintelligence-news") THEN "ai_news"
    ELSE IF Contains(base, "kdnuggets") THEN "kdnuggets"
    ELSE IF Contains(base, "thenewstack") THEN "thenewstack"
    ELSE "generic"

\* "Make URL absolute": only an href that starts with "/" is joined
FullUrl(site, base, href) ==
    IF StartsWithSlash(href)
    THEN CASE site = "kdnuggets" -> <<"https://", "www.kdnuggets.com">> \o href
           [] site = "thenewstack" -> <<"https://", "thenewstack.io">> \o href
           [] OTHER -> UrlJoin(base, href)
    ELSE href

SkipPatterns(site) ==
    CASE site = "ai_news" -> {"/categories/", "/tags/", "/about", "/contact", "javascript:", "#"}
      [] site = "kdnuggets" -> {"/tag/", "/category/", "/about", "javascript:", "#"}
      [] site = "thenewstack" -> {}
      [] OTHER -> {"/category", "/tag", "/about", "javascript:", "#"}

ArticlePatterns == {"/news/", "/article/", "/2025/", "/2024/"}

\* the conditions every site applies before its own ones
CommonFilter(url, title, seen) ==
    /\ url # <<>>
    /\ url \notin seen
    /\ title # <<>>
    /\ Len(title) > TitleMinLen

SiteFilter(site, base, url) ==
    CASE site = "ai_news" -> ~ContainsAny(Lower(url), SkipPatterns(site))
      [] site = "kdnuggets" ->
           Contains(url, "kdnuggets.com") /\ ~ContainsAny(Lower(url), SkipPatterns(site))
      [] site = "thenewstack" -> Contains(url, "thenewstack.io")
      [] OTHER ->
           Netloc(url) = Netloc(base) /\ ~ContainsAny(Lower(url), SkipPatterns(site))

\* ai_news, last condition: any(pattern in url for pattern in [..., count >= 4]).
\* The last element of the list is a bool, and `True in "text"` raises
\* TypeError: the test is True when a string pattern occurs and raises
\* otherwise.
PatternTestRaises(site, url) ==
    site = "ai_news" /\ ~ContainsAny(Lower(url), ArticlePatterns)

\* the links in the order the nested loops visit them
RECURSIVE Worklist(_, _)
Worklist(sels, page) ==
    IF sels = <<>> THEN <<>>
    ELSE LET sel == Head(sels)
             hit(l) == Matches(l, sel)
         IN  SelectSeq(page, hit) \o Worklist(Tail(sels), page)

RECURSIVE Collect(_, _, _, _)
Collect(site, base, work, acc) ==
    IF work = <<>> \/ acc.raised \/ Len(acc.items) >= StaticLimit THEN acc
    ELSE LET link == Head(work)
             url == FullUrl(site, base, link.href)
             seen == {acc.items[k].url : k \in 1..Len(acc.items)}
         IN  IF CommonFilter(url, link.text, seen) /\ SiteFilter(site, base, url)
             THEN IF PatternTestRaises(site, url)
                  THEN Raise
                  ELSE Collect(site, base, Tail(work),
                               Ok(Append(acc.items, [title |-> link.text, url |-> url])))
             ELSE Collect(site, base, Tail(work), acc)

\* _extract_ai_news_urls, _extract_kdnuggets_urls, _extract_newstack_urls,
\* _extract_generic_urls
extract_urls(site, base, page) ==
    Collect(site, base, Worklist(Selectors(site), page), Ok(<<>>))

\* find_actual_article_urls: the GET and the extractor are inside
\* try/except Exception, which returns []
find_actual_article_urls(base, fetch) ==
    IF ~fetch.get2_ok THEN Ok(<<>>)
    ELSE LET r == extract_urls(SiteOf(base), base, fetch.page)
         IN  IF r.raised THEN Ok(<<>>) ELSE r

\* extract_from_website_basic without its try/except
extract_from_website_basic_uncaught(base, source, fetch) ==
    IF ~fetch.get1_ok THEN Raise
    ELSE LET r == find_actual_article_urls(base, fetch)
         IN  Ok([k \in 1..Len(r.items) |->
                   Article(r.items[k].title, r.items[k].url, <<>>, source, "basic")])

\* extract_from_website_basic: its own GET, then find_actual_article_urls,
\* all inside try/except Exception, which returns []
extract_from_website_basic(base, source, fetch) ==
    IF ~fetch.get1_ok THEN Ok(<<>>)
    ELSE LET r == find_actual_article_urls(base, fetch)
         IN  IF r.raised THEN Ok(<<>>)
             ELSE Ok([k \in 1..Len(r.items) |->
                        Article(r.items[k].title, r.items[k].url, <<>>, source, "basic")])

(***************************************************************************)
(* Strategy 3: extract_from_website_selenium over                          *)
(* SeleniumExtractor.extract_articles_with_selenium.                       *)
(***************************************************************************)
RenderLimit == 20

RenderTitleMinLen == 10

Container(titles, has_link, href) ==
    [titles |-> titles, has_link |-> has_link, href |-> href]

\* the text of the first title element longer than 10 characters, '' if none
RECURSIVE FirstTitle(_)
FirstTitle(titles) ==
    IF titles = <<>> THEN <<>>
    ELSE IF Len(Head(titles)) > RenderTitleMinLen THEN Head(titles)
    ELSE FirstTitle(Tail(titles))

\* _extract_article_data: None (here <<>>) for a container without a title
extract_article_data(c, source, base) ==
    IF FirstTitle(c.titles) = <<>> THEN <<>>
    ELSE << Article(FirstTitle(c.titles),
                    IF c.has_link THEN UrlJoin(base, c.href) ELSE <<>>,
                    <<>>, source, "selenium") >>

RECURSIVE ExtractContainers(_, _, _)
ExtractContainers(cs, source, base) ==
    IF cs = <<>> THEN <<>>
    ELSE extract_article_data(Head(cs), source, base)
         \o ExtractContainers(Tail(cs), source, base)

\* the containers of the first article selector that matches anything
RECURSIVE FirstGroup(_)
FirstGroup(groups) ==
    IF groups = <<>> THEN <<>>
    ELSE IF Head(groups) # <<>> THEN Head(groups)
    ELSE FirstGroup(Tail(groups))

\* extract_articles_with_selenium: no driver, or an empty page source, gives []
extract_articles_with_selenium(base, source, render) ==
    IF ~render.driver THEN Ok(<<>>)
    ELSE IF ~render.loaded THEN Ok(<<>>)
    ELSE Ok(ExtractContainers(Take(FirstGroup(render.groups), RenderLimit), source, base))

\* render.extractor: whether the extractor object exists at all
extract_from_website_selenium(base, source, render) ==
    IF ~render.extractor THEN Ok(<<>>)
    ELSE extract_articles_with_selenium(base, source, render)

(***************************************************************************)
(* The URL pass and SmartContentFetcher.enhance_articles_with_content.     *)
(***************************************************************************)
\* a URL pass that keeps the last candidate carrying a URL
RECURSIVE DedupByUrlKeepLast(_, _)
DedupByUrlKeepLast(s, seen) ==
    IF s = <<>> THEN <<>>
    ELSE IF Head(s).url # <<>> /\ \A k \in 2..Len(s) : s[k].url # Head(s).url
         THEN <<Head(s)>> \o DedupByUrlKeepLast(Tail(s), seen)
         ELSE DedupByUrlKeepLast(Tail(s), seen)

\* lines 326-331: first occurrence of every non-empty URL
RECURSIVE DedupByUrl(_, _)
DedupByUrl(s, seen) ==
    IF s = <<>> THEN <<>>
    ELSE IF Head(s).url # <<>> /\ Head(s).url \notin seen
         THEN <<Head(s)>> \o DedupByUrl(Tail(s), seen \cup {Head(s).url})
         ELSE DedupByUrl(Tail(s), seen)

\* what fetching one article page gives: failure, or a page with or without
\* a usable title element
ContentOutcomes == {"fail", "page", "untitled_page"}

\* content_data['title']: the candidate's title, or _extract_title(soup)
ContentTitle(title, outcome) ==
    IF title # <<>> THEN title
    ELSE IF outcome = "page" THEN PageTitle
    ELSE NoTitleFound

\* an iteration that copies the failure record's empty summary into the candidate
EnhanceCopiesFailure(a, outcome) ==
    IF a.url = <<>> \/ Contains(a.url, "/categories/") THEN a
    ELSE IF outcome = "fail" \/ ~IsAbsolute(a.url)
         THEN [a EXCEPT !.summary = <<>>,
                        !.content_extracted = "false",
                        !.extraction_error = <<"request failed">>]
         ELSE [a EXCEPT !.title = ContentTitle(a.title, outcome),
                        !.summary = <<"extracted summary">>,
                        !.content_extracted = "true"]

\* an iteration that takes the title of the fetched page whenever there is one
EnhanceTakesPageTitle(a, outcome) ==
    IF a.url = <<>> \/ Contains(a.url, "/categories/") THEN a
    ELSE IF outcome = "fail" \/ ~IsAbsolute(a.url)
         THEN [a EXCEPT !.content_extracted = "false",
                        !.extraction_error = <<"request failed">>]
         ELSE [a EXCEPT !.title = IF outcome = "page" THEN PageTitle ELSE ContentTitle(a.title, outcome),
                        !.summary = <<"extracted summary">>,
                        !.content_extracted = "true"]

\* one iteration of the loop of enhance_articles_with_content; the GET of
\* extract_full_article_content raises for a URL without scheme and host
Enhance(a, outcome) ==
    IF a.url = <<>> \/ Contains(a.url, "/categories/") THEN a
    ELSE IF outcome = "fail" \/ ~IsAbsolute(a.url)
         THEN [a EXCEPT !.content_extracted = "false",
                        !.extraction_error = <<"request failed">>]
         ELSE [a EXCEPT !.title = ContentTitle(a.title, outcome),
                        !.summary = <<"extracted summary">>,
                        !.content_extracted = "true"]

\* the outcome of the k-th fetch: the pattern, repeated
OutcomeAt(pattern, k) == pattern[((k - 1) % Len(pattern)) + 1]

enhance_articles_with_content(s, pattern) ==
    [k \in 1..Len(s) |-> Enhance(s[k], OutcomeAt(pattern, k))]

(***************************************************************************)
(* EnhancedNewsExtractor.extract_from_website, strategy by strategy.       *)
(***************************************************************************)
FetchIdle ==
    /\ fsrc = "none"
    /\ articles = <<>>
    /\ calls = <<>>
    /\ unique = <<>>
    /\ fetched = <<>>
    /\ wire = <<>>
    /\ fpc = "idle"

\* a request sent to a host, and a time.sleep
Get(kind, host) == [op |-> "get", kind |-> kind, host |-> host]

Sleep == [op |-> "sleep", kind |-> "", host |-> ""]

\* extract_from_rss: feedparser.parse(rss_url) fetches the feed
RssWire(base) == <<Get("feed", Netloc(base))>>

\* extract_from_website_basic: the sleep of line 262, the GET of line 264 and,
\* when that GET succeeded, the GET of find_actual_article_urls
BasicWire(base, fetch) ==
    <<Sleep, Get("page", Netloc(base))>>
       \o (IF fetch.get1_ok THEN <<Get("discovery", Netloc(base))>> ELSE <<>>)

\* get_page_source: driver.get, then the sleep of line 107 once the page is there
SeleniumWire(base, render) ==
    IF ~render.extractor \/ ~render.driver THEN <<>>
    ELSE <<Get("render", Netloc(base))>> \o (IF render.loaded THEN <<Sleep>> ELSE <<>>)

\* one iteration of enhance_articles_with_content: `continue` for a skipped
\* candidate; else the GET of extract_full_article_content (none goes out
\* for a URL without scheme and host) and the sleep of line 493
EnhanceWire(a) ==
    IF a.url = <<>> \/ Contains(a.url, "/categories/") THEN <<>>
    ELSE IF ~IsAbsolute(a.url) THEN <<Sleep>>
    ELSE <<Get("content", Netloc(a.url)), Sleep>>

RECURSIVE EnhanceAllWire(_)
EnhanceAllWire(s) ==
    IF s = <<>> THEN <<>> ELSE EnhanceWire(Head(s)) \o EnhanceAllWire(Tail(s))

\* one invocation: the list before it, whether the strategy failed, what it gave
Call(strategy, before, failed, got) ==
    [strategy |-> strategy, before |-> before, failed |-> failed, got |-> got]

\* a chain that never finds the list sufficient
AlwaysInsufficient(list) == TRUE

\* a test that counts the distinct non-empty URLs of the list
InsufficientDistinct(list) ==
    Cardinality({list[k].url : k \in 1..Len(list)} \ {<<>>}) < MinArticles

\* whether another strategy runs: `if len(articles) < 5`
Insufficient(list) == Len(list) < MinArticles

\* lines 302-310: the feed is tried only for a source of the feed table
ExtractFromWebsite(source) ==
    /\ fpc = "idle"
    /\ fsrc' = source
    /\ articles' = <<>>
    /\ calls' = <<>>
    /\ unique' = <<>>
    /\ fetched' = <<>>
    /\ wire' = <<>>
    /\ fpc' = IF source \in RssSources THEN "rss" ELSE "basic"

\* line 310, then the test of line 313
RssStep(feeds) ==
    /\ fpc = "rss"
    /\ \E feed \in feeds :
          LET r == extract_from_rss(feed, fsrc)
              failed == feed.parse_raises \/ \E k \in 1..Len(feed.entries) : ~feed.entries[k].has_link
          IN  /\ calls' = Append(calls, Call("rss", articles, failed, r.items))
              /\ IF r.raised
                 THEN fpc' = "raised" /\ UNCHANGED articles
                 ELSE /\ articles' = r.items
                      /\ fpc' = IF Insufficient(r.items) THEN "basic" ELSE "finish"
    /\ wire' = wire \o RssWire(SourceUrl(fsrc))
    /\ UNCHANGED <<fsrc, unique, fetched>>

\* lines 314-315, then the test of line 318
BasicStep(fetches) ==
    /\ fpc = "basic"
    /\ \E fetch \in fetches :
          LET r == extract_from_website_basic(SourceUrl(fsrc), fsrc, fetch)
              failed == \/ ~fetch.get1_ok
                        \/ ~fetch.get2_ok
                        \/ extract_urls(SiteOf(SourceUrl(fsrc)), SourceUrl(fsrc), fetch.page).raised
          IN  /\ calls' = Append(calls, Call("basic", articles, failed, r.items))
              /\ IF r.raised
                 THEN fpc' = "raised" /\ UNCHANGED articles
                 ELSE /\ articles' = articles \o r.items
                      /\ fpc' = IF Insufficient(articles \o r.items) THEN "selenium" ELSE "finish"
              /\ wire' = wire \o BasicWire(SourceUrl(fsrc), fetch)
    /\ UNCHANGED <<fsrc, unique, fetched>>

\* lines 320-321
SeleniumStep(renders) ==
    /\ fpc = "selenium"
    /\ \E render \in renders :
          LET r == extract_from_website_selenium(SourceUrl(fsrc), fsrc, render)
              failed == ~render.extractor \/ ~render.driver \/ ~render.loaded
          IN  /\ calls' = Append(calls, Call("selenium", articles, failed, r.items))
              /\ IF r.raised
                 THEN fpc' = "raised" /\ UNCHANGED articles
                 ELSE /\ articles' = articles \o r.items
                      /\ fpc' = "finish"
              /\ wire' = wire \o SeleniumWire(SourceUrl(fsrc), render)
    /\ UNCHANGED <<fsrc, unique, fetched>>

\* lines 324-336: the URL pass, the enhancement, the return
FinishStep(patterns) ==
    /\ fpc = "finish"
    /\ IF articles = <<>>
       THEN /\ unique' = <<>>
            /\ fetched' = <<>>
            /\ UNCHANGED wire
       ELSE /\ unique' = DedupByUrl(articles, {})
            /\ wire' = wire \o EnhanceAllWire(DedupByUrl(articles, {}))
            /\ \E pattern \in patterns :
                  fetched' = enhance_articles_with_content(DedupByUrl(articles, {}), pattern)
    /\ fpc' = "returned"
    /\ UNCHANGED <<fsrc, articles, calls>>

(***************************************************************************)
(* EnhancedNewsExtractor.extract_multiple_sources and                      *)
(* NewsAggregationPipeline.run_complete_pipeline.                          *)
(***************************************************************************)
TitlePassMinLen == 15

TopCount == 15

FallbackCount == 10

\* a title pass that compares the titles as they are
RECURSIVE TitlePassExact(_, _)
TitlePassExact(s, seen) ==
    IF s = <<>> THEN <<>>
    ELSE IF Head(s).title \notin seen /\ Len(Head(s).title) > TitlePassMinLen
         THEN <<Head(s)>> \o TitlePassExact(Tail(s), seen \cup {Head(s).title})
         ELSE TitlePassExact(Tail(s), seen)

\* a title pass that leaves out the head of the list
TitlePassSkipHead(s, seen) ==
    IF s = <<>> THEN <<>> ELSE TitlePassExact(Tail(s), seen)

\* lines 354-360: a candidate is kept when its lower-cased title is new and
\* longer than 15 characters
RECURSIVE TitlePass(_, _)
TitlePass(s, seen) ==
    IF s = <<>> THEN <<>>
    ELSE LET title_lower == Lower(Head(s).title)
         IN  IF title_lower \notin seen /\ Len(title_lower) > TitlePassMinLen
             THEN <<Head(s)>> \o TitlePass(Tail(s), seen \cup {title_lower})
             ELSE TitlePass(Tail(s), seen)

\* utils.deduplicate_articles: first occurrence of every non-empty
\* lower-cased, stripped title
RECURSIVE deduplicate_articles(_, _)
deduplicate_articles(s, seen) ==
    IF s = <<>> THEN <<>>
    ELSE LET title == Strip(Lower(Head(s).title))
         IN  IF title # <<>> /\ title \notin seen
             THEN <<Head(s)>> \o deduplicate_articles(Tail(s), seen \cup {title})
             ELSE deduplicate_articles(Tail(s), seen)

SourceResult(source, list) ==
    [source |-> source, articles |-> list, article_count |-> Len(list),
     success |-> Len(list) > 0]

\* a table lookup that ignores the `enabled` flag
AllSources == SourceOrder

\* Config.get_enabled_sources: a dict comprehension over NEWS_SOURCES, which
\* keeps the order of the table
get_enabled_sources == SelectSeq(SourceOrder, LAMBDA name : name \in enabled)

\* process_and_filter_articles, lines 76-83
RECURSIVE CollectArticles(_)
CollectArticles(rs) ==
    IF rs = <<>> THEN <<>>
    ELSE (IF Head(rs).success /\ Head(rs).articles # <<>> THEN Head(rs).articles ELSE <<>>)
         \o CollectArticles(Tail(rs))

PipelineIdle ==
    /\ ppc = "idle"
    /\ si = 0
    /\ results = <<>>
    /\ all_articles = <<>>
    /\ filtered = <<>>
    /\ steps = <<>>
    /\ storage = "none"
    /\ run_result = "none"
    /\ closed = FALSE
    /\ enabled = Range(SourceOrder)
    /\ interrupted = FALSE

\* `return value`, then the `finally:` of run_complete_pipeline
Return(value) ==
    /\ ppc' = "done"
    /\ run_result' = value
    /\ closed' = TRUE
    /\ UNCHANGED <<enabled, interrupted>>

\* run_complete_pipeline up to the loop of extract_multiple_sources
RunCompletePipeline ==
    /\ ppc = "idle"
    /\ \E flags \in SUBSET Range(SourceOrder) : enabled' = flags
    /\ ppc' = "sources"
    /\ si' = 1
    /\ steps' = <<"extract">>
    /\ UNCHANGED <<results, all_articles, filtered, storage, run_result, closed, interrupted>>
    /\ UNCHANGED <<uvars, avars, cvars, fvars>>

\* main.run_extraction_only up to the loop of extract_multiple_sources: a
\* pipeline of its own, whose constructor creates the extractor
RunExtractionOnly ==
    /\ ppc = "idle"
    /\ \E flags \in SUBSET Range(SourceOrder) : enabled' = flags
    /\ ppc' = "sources"
    /\ si' = 1
    /\ steps' = <<"extract_only">>
    /\ UNCHANGED <<results, all_articles, filtered, storage, run_result, closed, interrupted>>
    /\ UNCHANGED <<uvars, avars, cvars, fvars>>

\* main.run_extraction_only from the return of extract_news_data on: 0 when
\* the results are not empty, 1 otherwise; nothing else is called
ExtractionOnlyReturn(saved) ==
    /\ ppc = "sources"
    /\ steps[1] = "extract_only"
    /\ si > Len(get_enabled_sources)
    /\ fpc = "idle"
    /\ ppc' = "done"
    /\ run_result' = IF saved /\ results # <<>> THEN "0" ELSE "1"
    /\ UNCHANGED <<si, results, all_articles, filtered, steps, storage, closed, enabled, interrupted>>
    /\ UNCHANGED <<uvars, avars, cvars, fvars>>

\* extract_multiple_sources, line 351
SourceCall ==
    /\ ppc = "sources"
    /\ si <= Len(get_enabled_sources)
    /\ ExtractFromWebsite(get_enabled_sources[si])
    /\ UNCHANGED <<uvars, avars, cvars, pvars>>

\* extract_multiple_sources, lines 353-374: the title pass over the returned
\* list (fetched, the loop's `articles`) and the result record.  An exception of extract_from_website leaves through
\* extract_news_data, which returns {}, and the run returns False.
SourceReturn ==
    /\ ppc = "sources"
    /\ fpc \in {"returned", "raised"}
    /\ IF fpc = "raised"
       THEN /\ Return("false")
            /\ UNCHANGED <<si, results>>
       ELSE /\ results' = Append(results, SourceResult(fsrc, TitlePass(fetched, {})))
            /\ si' = si + 1
            /\ UNCHANGED <<ppc, run_result, closed, enabled, interrupted>>
    /\ articles' = <<>>
    /\ calls' = <<>>
    /\ unique' = <<>>
    /\ wire' = <<>>
    /\ fpc' = "idle"
    /\ UNCHANGED <<fsrc, fetched>>
    /\ UNCHANGED <<all_articles, filtered, steps, storage>>
    /\ UNCHANGED <<uvars, avars, cvars>>

\* the end of extract_news_data (the raw results are saved), the test of
\* run_complete_pipeline, and process_and_filter_articles up to its call of
\* select_top_articles
ProcessAndFilterArticles(saved) ==
    /\ ppc = "sources"
    /\ steps[1] = "extract"
    /\ si > Len(get_enabled_sources)
    /\ IF ~saved \/ results = <<>>
       THEN /\ Return("false")
            /\ UNCHANGED <<all_articles, steps>>
            /\ UNCHANGED cvars
       ELSE /\ all_articles' = CollectArticles(results)
            /\ steps' = Append(steps, "process")
            /\ IF CollectArticles(results) = <<>>
               THEN /\ Return("false")
                    /\ UNCHANGED cvars
               ELSE /\ CurateCall("select_top_articles", CollectArticles(results), TopCount)
                    /\ ppc' = "curating"
                    /\ UNCHANGED <<run_result, closed, enabled, interrupted>>
    /\ fsrc' = "none"
    /\ fetched' = <<>>
    /\ UNCHANGED <<articles, calls, unique, wire, fpc>>
    /\ UNCHANGED <<si, results, filtered, storage>>
    /\ UNCHANGED <<uvars, avars>>

\* one iteration of the loop of curate_articles inside the pipeline
PipelineCurate(behaviours) ==
    /\ ppc = "curating"
    /\ CurateIteration(behaviours)
    /\ UNCHANGED <<uvars, avars, fvars, pvars>>

\* all_articles once curation has worked on it: curate_articles scores the
\* dicts of the list, whose order stays
InPlace == cin

\* the rest of process_and_filter_articles (the selection is saved; any
\* exception gives all_articles[:10]) and the test of run_complete_pipeline
ProcessReturn(saved) ==
    /\ ppc = "curating"
    /\ cpc \in {"returned", "raised"}
    /\ all_articles' = InPlace
    /\ LET top == IF cpc = "returned" /\ saved THEN selected ELSE Take(InPlace, FallbackCount)
       IN  /\ filtered' = top
           /\ IF top = <<>>
              THEN Return("false")
              ELSE /\ ppc' = "store"
                   /\ UNCHANGED <<run_result, closed, enabled, interrupted>>
    /\ cin' = <<>>
    /\ centry' = "none"
    /\ ccount' = 0
    /\ ci' = 0
    /\ curated' = <<>>
    /\ selected' = <<>>
    /\ cpc' = "idle"
    /\ UNCHANGED <<si, results, steps, storage>>
    /\ UNCHANGED <<uvars, avars, fvars>>

\* a run that ends with False when the storage failed
StoreInVectorDbOrStop(results_of_add) ==
    /\ ppc = "store"
    /\ steps' = Append(steps, "store")
    /\ \E r \in results_of_add :
          /\ storage' = IF r = "ok" THEN "ok" ELSE "failed"
          /\ IF r = "ok"
             THEN ppc' = "insights" /\ UNCHANGED <<run_result, closed, enabled, interrupted>>
             ELSE Return("false")
    /\ UNCHANGED <<si, results, all_articles, filtered>>
    /\ UNCHANGED <<uvars, avars, cvars, fvars>>

\* store_in_vector_db: a failure, returned or raised, is a result without
\* success, and the run continues
StoreInVectorDb(results_of_add) ==
    /\ ppc = "store"
    /\ \E r \in results_of_add :
          storage' = IF r = "ok" THEN "ok" ELSE "failed"
    /\ steps' = Append(steps, "store")
    /\ ppc' = "insights"
    /\ UNCHANGED <<si, results, all_articles, filtered, run_result, closed, enabled, interrupted>>
    /\ UNCHANGED <<uvars, avars, cvars, fvars>>

\* get_relevant_insights: everything is inside try/except, its result unused
GetRelevantInsights ==
    /\ ppc = "insights"
    /\ steps' = Append(steps, "insights")
    /\ ppc' = "report"
    /\ UNCHANGED <<si, results, all_articles, filtered, storage, run_result, closed, enabled, interrupted>>
    /\ UNCHANGED <<uvars, avars, cvars, fvars>>

\* generate_comprehensive_report (a failure gives ""), the summary, return True
GenerateComprehensiveReport ==
    /\ ppc = "report"
    /\ steps' = Append(steps, "report")
    /\ Return("true")
    /\ UNCHANGED <<si, results, all_articles, filtered, storage>>
    /\ UNCHANGED <<uvars, avars, cvars, fvars>>

(***************************************************************************)
(* A KeyboardInterrupt during run_complete_pipeline.                       *)
(***************************************************************************)
Running == ppc \in {"sources", "curating", "store", "insights", "report"}

\* KeyboardInterrupt is not an Exception: no `except Exception` of the run
\* catches it.  It leaves every frame of the run, whose locals (all_results,
\* all_articles, curated_articles, filtered_articles) go with them, runs the
\* `finally:` of run_complete_pipeline and reaches main, which prints a
\* message and returns 1.
Interrupt ==
    /\ Running
    /\ interrupted' = TRUE
    /\ ppc' = "done"
    /\ run_result' = "interrupted"
    /\ closed' = TRUE
    /\ results' = <<>>
    /\ all_articles' = <<>>
    /\ filtered' = <<>>
    /\ cin' = <<>> /\ centry' = "none" /\ ccount' = 0 /\ ci' = 0
    /\ curated' = <<>> /\ selected' = <<>> /\ cpc' = "idle"
    /\ fsrc' = "none" /\ articles' = <<>> /\ calls' = <<>>
    /\ unique' = <<>> /\ fetched' = <<>> /\ wire' = <<>> /\ fpc' = "idle"
    /\ UNCHANGED <<si, steps, storage, enabled>>
    /\ UNCHANGED <<uvars, avars>>

\* A KeyboardInterrupt raised inside OllamaManager.is_available is caught by
\* its bare `except:`, which returns False: the analysis at hand gets no
\* reply and the loop of curate_articles goes on.
InterruptInIsAvailable(behaviours) ==
    /\ ppc = "curating"
    /\ CurateIteration({b \in behaviours : ~is_available(b)})
    /\ interrupted' = TRUE
    /\ UNCHANGED <<ppc, si, results, all_articles, filtered, steps, storage, run_result, closed, enabled>>
    /\ UNCHANGED <<uvars, avars, fvars>>

(***************************************************************************)
(* Functions without side effects, called once on an argument.             *)
(***************************************************************************)
PureIdle ==
    /\ ufn = "none"
    /\ uin = <<>>
    /\ uout = <<>>

\* f(argument) has returned value
PureCall(name, argument, value) ==
    /\ ufn' = name
    /\ uin' = argument
    /\ uout' = value
    /\ UNCHANGED <<avars, cvars, fvars, pvars>>

\* the title pass of extract_multiple_sources over one source's list
ApplyTitlePass(lists) ==
    /\ ufn = "none"
    /\ \E list \in lists : PureCall("title_pass", list, TitlePass(list, {}))

\* the title pass over the list it has just returned
ApplyTitlePassAgain ==
    /\ ufn = "title_pass"
    /\ PureCall("title_pass_again", uout, TitlePass(uout, {}))

\* utils.deduplicate_articles(articles)
ApplyDeduplicate(lists) ==
    /\ ufn = "none"
    /\ \E list \in lists : PureCall("deduplicate_articles", list, deduplicate_articles(list, {}))

\* utils.deduplicate_articles over the list it has just returned
ApplyDeduplicateAgain ==
    /\ ufn = "deduplicate_articles"
    /\ PureCall("deduplicate_articles_again", uout, deduplicate_articles(uout, {}))

(***************************************************************************)
(* ChromaDBManager.detect_trends.  A text is a sequence of words and of     *)
(* " " tokens, one per space.                                              *)
(***************************************************************************)
TrendMinCount == 2         \* `if count >= 2`

TrendLimit == 3            \* `[:3]`

ai_terms ==
    <<"GPT", "LLM", "Large Language Model", "ChatGPT", "OpenAI",
      "machine learning", "deep learning", "neural network",
      "transformer", "AI model", "artificial intelligence",
      "computer vision", "natural language processing", "NLP">>

\* term.lower(), split at its spaces
TermWords(term) ==
    CASE term = "GPT" -> <<"gpt">>
      [] term = "LLM" -> <<"llm">>
      [] term = "Large Language Model" -> <<"large", "language", "model">>
      [] term = "ChatGPT" -> <<"chatgpt">>
      [] term = "OpenAI" -> <<"openai">>
      [] term = "machine learning" -> <<"machine", "learning">>
      [] term = "deep learning" -> <<"deep", "learning">>
      [] term = "neural network" -> <<"neural", "network">>
      [] term = "transformer" -> <<"transformer">>
      [] term = "AI model" -> <<"ai", "model">>
      [] term = "artificial intelligence" -> <<"artificial", "intelligence">>
      [] term = "computer vision" -> <<"computer", "vision">>
      [] term = "natural language processing" -> <<"natural", "language", "processing">>
      [] term = "NLP" -> <<"nlp">>

\* str.lower() of a word
LowerWord(w) ==
    CASE w = "GPT" -> "gpt" [] w = "ChatGPT" -> "chatgpt" [] w = "NLP" -> "nlp"
      [] w = "OpenAI" -> "openai" [] w = "Machine" -> "machine" [] w = "Deep" -> "deep"
      [] OTHER -> w

\* how often the piece occurs inside the word
Within(w, piece) ==
    IF w = piece \/ <<w, piece>> \in {<<"chatgpt", "gpt">>, <<"transformers", "transformer">>}
    THEN 1 ELSE 0

EndsWith(w, piece) == w = piece \/ <<w, piece>> \in {<<"openai", "ai">>, <<"chatgpt", "gpt">>}

BeginsWith(w, piece) == w = piece \/ <<w, piece>> \in {<<"transformers", "transformer">>, <<"models", "model">>}

\* " ".join(words)
JoinWords(words) ==
    IF words = <<>> THEN <<>>
    ELSE [k \in 1..(2 * Len(words) - 1) |-> IF k % 2 = 1 THEN words[(k + 1) \div 2] ELSE " "]

\* lines 178-180: f"{title} {summary}".lower() of every article, each followed by " "
RECURSIVE TotalText(_)
TotalText(arts) ==
    IF arts = <<>> THEN <<>>
    ELSE LET article_text == JoinWords(Head(arts).title) \o <<" ">> \o JoinWords(Head(arts).summary)
         IN  [k \in 1..Len(article_text) |-> LowerWord(article_text[k])] \o <<" ">> \o TotalText(Tail(arts))

\* the term's words lie in the text from position k on, one space between them
OccursAt(text, k, words) ==
    LET n == Len(words)
    IN  /\ k + 2 * (n - 1) <= Len(text)
        /\ EndsWith(text[k], words[1])
        /\ BeginsWith(text[k + 2 * (n - 1)], words[n])
        /\ \A j \in 1..n :
              /\ (1 < j /\ j < n) => text[k + 2 * (j - 1)] = words[j]
              /\ j < n => text[k + 2 * j - 1] = " "

RECURSIVE SumWithin(_, _)
SumWithin(text, piece) ==
    IF text = <<>> THEN 0 ELSE Within(Head(text), piece) + SumWithin(Tail(text), piece)

\* total_text.lower().count(term.lower()); no term of the vocabulary overlaps itself
TermCount(text, term) ==
    IF Len(TermWords(term)) = 1
    THEN SumWithin(text, TermWords(term)[1])
    ELSE Cardinality({k \in 1..Len(text) : OccursAt(text, k, TermWords(term))})

\* an insertion that puts a term before those of the same count
RECURSIVE InsertBeforeEqualCount(_, _)
InsertBeforeEqualCount(sorted, e) ==
    IF sorted = <<>> THEN <<e>>
    ELSE IF Head(sorted).count > e.count
         THEN <<Head(sorted)>> \o InsertBeforeEqualCount(Tail(sorted), e)
         ELSE <<e>> \o sorted

\* sorted(term_counts.items(), key=lambda x: x[1], reverse=True): stable
RECURSIVE InsertByCount(_, _)
InsertByCount(sorted, e) ==
    IF sorted = <<>> THEN <<e>>
    ELSE IF Head(sorted).count >= e.count
         THEN <<Head(sorted)>> \o InsertByCount(Tail(sorted), e)
         ELSE <<e>> \o sorted

RECURSIVE SortByCountFrom(_, _)
SortByCountFrom(sorted, rest) ==
    IF rest = <<>> THEN sorted
    ELSE SortByCountFrom(InsertByCount(sorted, Head(rest)), Tail(rest))

\* f"{term} developments (mentioned {count} times)"
TrendText(term, count) == <<term, " developments (mentioned ", count, " times)">>

detect_trends(arts) ==
    IF arts = <<>> THEN <<>>
    ELSE LET total_text == TotalText(arts)
             counted == [k \in 1..Len(ai_terms) |->
                           [term |-> ai_terms[k], count |-> TermCount(total_text, ai_terms[k])]]
             term_counts == SelectSeq(counted, LAMBDA e : e.count >= TrendMinCount)
             top == Take(SortByCountFrom(<<>>, term_counts), TrendLimit)
         IN  [k \in 1..Len(top) |-> TrendText(top[k].term, top[k].count)]

ApplyDetectTrends(lists) ==
    /\ ufn = "none"
    /\ \E list \in lists : PureCall("detect_trends", list, detect_trends(list))

(***************************************************************************)
(* SmartContentFetcher._extract_article_text.  A document is the sequence  *)
(* of its elements in document order; an element has a tag, a class and    *)
(* its text nodes, each stripped, as sequences of characters.              *)
(***************************************************************************)
ContentMinLen == 200       \* `if len(text) > 200`, `if len(full_text) > 200`

BlockMinLen == 50          \* `if len(text) > 50`

NoContent == <<"No content extracted">>

Element(tag, class, strings) == [tag |-> tag, class |-> class, strings |-> strings]

\* a selector is a tag name or a class name
content_selectors ==
    <<[tag |-> "article", class |-> ""],
      [tag |-> "", class |-> "article-content"],
      [tag |-> "", class |-> "post-content"],
      [tag |-> "", class |-> "entry-content"],
      [tag |-> "", class |-> "content"],
      [tag |-> "", class |-> "main-content"],
      [tag |-> "main", class |-> ""],
      [tag |-> "", class |-> "story-body"],
      [tag |-> "", class |-> "article-body"],
      [tag |-> "", class |-> "post-body"]>>

MatchesContent(e, selector) ==
    IF selector.tag # "" THEN e.tag = selector.tag ELSE e.class = selector.class

\* " ".join(texts)
RECURSIVE JoinSpaced(_)
JoinSpaced(texts) ==
    IF texts = <<>> THEN <<>>
    ELSE IF Len(texts) = 1 THEN Head(texts)
    ELSE Head(texts) \o <<" ">> \o JoinSpaced(Tail(texts))

RECURSIVE Concat(_)
Concat(texts) == IF texts = <<>> THEN <<>> ELSE Head(texts) \o Concat(Tail(texts))

\* elem.get_text(separator=' ', strip=True)
GetTextSpaced(e) == JoinSpaced(SelectSeq(e.strings, LAMBDA t : t # <<>>))

\* elem.get_text(strip=True)
GetText(e) == Concat(e.strings)

\* a threshold test that lets a text of exactly the threshold pass
SubstantialFromThreshold(text) == Len(text) >= ContentMinLen

\* `len(text) > 200`
Substantial(text) == Len(text) > ContentMinLen

\* soup.select_one(selector): the elements it matches; the first is the one taken
SelectAll(doc, selector) == SelectSeq(doc, LAMBDA e : MatchesContent(e, selector))

\* lines 311-316, from the k-th selector on
RECURSIVE FirstContainerText(_, _)
FirstContainerText(doc, k) ==
    IF k > Len(content_selectors) THEN [found |-> FALSE, text |-> <<>>]
    ELSE LET matched == SelectAll(doc, content_selectors[k])
         IN  IF matched # <<>> /\ Substantial(GetTextSpaced(Head(matched)))
             THEN [found |-> TRUE, text |-> GetTextSpaced(Head(matched))]
             ELSE FirstContainerText(doc, k + 1)

\* lines 319-328
TextBlocks(doc) ==
    LET all_text_elements == SelectSeq(doc, LAMBDA e : e.tag \in {"p", "div"})
        texts == [k \in 1..Len(all_text_elements) |-> GetText(all_text_elements[k])]
    IN  SelectSeq(texts, LAMBDA t : Len(t) > BlockMinLen)

\* lines 334-335
ParaText(doc) ==
    LET paragraphs == SelectSeq(doc, LAMBDA e : e.tag = "p")
    IN  JoinSpaced([k \in 1..Len(paragraphs) |-> GetText(paragraphs[k])])

extract_article_text(doc) ==
    LET container == FirstContainerText(doc, 1)
        full_text == JoinSpaced(TextBlocks(doc))
        para_text == ParaText(doc)
    IN  IF container.found THEN container.text
        ELSE IF Substantial(full_text) THEN full_text
        ELSE IF para_text # <<>> THEN para_text
        ELSE NoContent

ApplyExtractArticleText(docs) ==
    /\ ufn = "none"
    /\ \E doc \in docs : PureCall("extract_article_text", doc, extract_article_text(doc))

\* EnhancedNewsExtractor.extract_from_rss(rss_url, source_name)
ApplyExtractFromRss(inputs) ==
    /\ ufn = "none"
    /\ \E input \in inputs :
          PureCall("extract_from_rss", input, extract_from_rss(input.feed, input.source))

\* SmartContentFetcher.find_actual_article_urls(base_url, source_name)
ApplyFindActualArticleUrls(inputs) ==
    /\ ufn = "none"
    /\ \E input \in inputs :
          PureCall("find_actual_article_urls", input,
                   find_actual_article_urls(input.base, [get1_ok |-> TRUE, get2_ok |-> TRUE,
                                                         page |-> input.page]).items)

ApplyGenerateResponse(behaviours) ==
    /\ ufn = "none"
    /\ \E b \in behaviours :
          PureCall("generate_response", b,
                   [reply |-> generate_response(b), requests |-> generate_requests(b)])

ApplyEnhanceArticles(inputs) ==
    /\ ufn = "none"
    /\ \E input \in inputs :
          PureCall("enhance_articles_with_content", input,
                   [articles |-> enhance_articles_with_content(input.articles, input.pattern),
                    wire |-> EnhanceAllWire(input.articles)])

(***************************************************************************)
(* enhanced_report_generator.parse_detailed_insights.  A reply is the      *)
(* sequence of its lines; a line is a sequence of tokens: a section header *)
(* with its colon, a word, a " ", or one character of a bullet marker.     *)
(***************************************************************************)
InsightHeaders == <<"TAKEAWAYS:", "BUSINESS IMPACT:", "TECHNICAL DETAILS:", "ACTION ITEMS:">>

\* current_section after each header
SectionOf(header) ==
    CASE header = "TAKEAWAYS:" -> "takeaways"
      [] header = "BUSINESS IMPACT:" -> "business_impact"
      [] header = "TECHNICAL DETAILS:" -> "technical_details"
      [] header = "ACTION ITEMS:" -> "action_items"

\* str.upper() of a token
UpperToken(t) ==
    CASE t = "Key Takeaways:" -> "KEY TAKEAWAYS:"
      [] t = "business impact:" -> "BUSINESS IMPACT:"
      [] t = "Action Items:" -> "ACTION ITEMS:"
      [] OTHER -> t

\* `header in line.upper()`
InUpper(line, header) ==
    \E k \in 1..Len(line) :
        \/ UpperToken(line[k]) = header
        \/ <<UpperToken(line[k]), header>> \in {<<"KEY TAKEAWAYS:", "TAKEAWAYS:">>}

\* the first argument of line.startswith as the source file spells it: the
\* three characters a-circumflex, euro sign, cent sign
BulletMarker == <<"a-circumflex", "euro", "cent">>

\* line.startswith((marker, '-'))
StartsWithBullet(line) ==
    \/ (line # <<>> /\ Head(line) = "-")
    \/ (Len(line) >= Len(BulletMarker) /\ SubSeq(line, 1, Len(BulletMarker)) = BulletMarker)

NoInsights(response) ==
    [takeaways |-> <<>>, business_impact |-> <<>>, technical_details |-> <<>>,
     action_items |-> <<>>, raw_response |-> response]

\* the first header the line holds, in the order of the tests, 0 for none
HeaderOfLine(line) ==
    IF \E h \in 1..Len(InsightHeaders) : InUpper(line, InsightHeaders[h])
    THEN CHOOSE h \in 1..Len(InsightHeaders) :
            /\ InUpper(line, InsightHeaders[h])
            /\ \A g \in 1..(h - 1) : ~InUpper(line, InsightHeaders[g])
    ELSE 0

\* a loop body that tests for a prose section before it tests for a bullet
InsightLineProseFirst(st, rawline) ==
    LET line == Strip(rawline)
        cur == st.current_section
        ins == st.insights
    IN  IF HeaderOfLine(line) # 0
        THEN [st EXCEPT !.current_section = SectionOf(InsightHeaders[HeaderOfLine(line)])]
        ELSE IF line # <<>> /\ cur = "business_impact"
        THEN [st EXCEPT !.insights.business_impact = ins.business_impact \o line \o <<" ">>]
        ELSE IF line # <<>> /\ cur = "technical_details"
        THEN [st EXCEPT !.insights.technical_details = ins.technical_details \o line \o <<" ">>]
        ELSE IF StartsWithBullet(line)
        THEN IF cur = "takeaways"
             THEN [st EXCEPT !.insights.takeaways = Append(ins.takeaways, Strip(Tail(line)))]
             ELSE IF cur = "action_items"
             THEN [st EXCEPT !.insights.action_items = Append(ins.action_items, Strip(Tail(line)))]
             ELSE st
        ELSE st

\* one iteration of the loop over response.split('\n')
InsightLine(st, rawline) ==
    LET line == Strip(rawline)
        cur == st.current_section
        ins == st.insights
    IN  IF HeaderOfLine(line) # 0
        THEN [st EXCEPT !.current_section = SectionOf(InsightHeaders[HeaderOfLine(line)])]
        ELSE IF StartsWithBullet(line)
        THEN IF cur = "takeaways"
             THEN [st EXCEPT !.insights.takeaways = Append(ins.takeaways, Strip(Tail(line)))]
             ELSE IF cur = "action_items"
             THEN [st EXCEPT !.insights.action_items = Append(ins.action_items, Strip(Tail(line)))]
             ELSE st
        ELSE IF line # <<>> /\ cur = "business_impact"
        THEN [st EXCEPT !.insights.business_impact = ins.business_impact \o line \o <<" ">>]
        ELSE IF line # <<>> /\ cur = "technical_details"
        THEN [st EXCEPT !.insights.technical_details = ins.technical_details \o line \o <<" ">>]
        ELSE st

RECURSIVE InsightLines(_, _)
InsightLines(st, lines) ==
    IF lines = <<>> THEN st
    ELSE InsightLines(InsightLine(st, Head(lines)), Tail(lines))

\* the loop, then the two strip() calls; nothing in the body can raise
parse_detailed_insights(response) ==
    LET ins == InsightLines([current_section |-> "none", insights |-> NoInsights(response)],
                            response).insights
    IN  [ins EXCEPT !.business_impact = Strip(ins.business_impact),
                    !.technical_details = Strip(ins.technical_details)]

ApplyParseDetailedInsights(responses) ==
    /\ ufn = "none"
    /\ \E response \in responses :
          PureCall("parse_detailed_insights", response, parse_detailed_insights(response))

(***************************************************************************)
(* Specifications.                                                         *)
(***************************************************************************)
\* analyze_article_quality alone, against every reply of up to MaxLines lines
InitParse == AnalyzeIdle /\ CurateIdle /\ FetchIdle /\ PipelineIdle /\ PureIdle

NextParse ==
    /\ AnalyzeArticleQuality(ServiceBehaviours(TextsUpTo(MaxLines)))
    /\ UNCHANGED <<cvars, fvars, pvars, uvars>>

SpecParse == InitParse /\ [][NextParse]_vars

\* curate_articles / select_top_articles on every list of up to MaxArticles
\* articles, each analysis meeting any service behaviour
CuratePool ==
    { Article(TitleA, <<"https://", "kdnuggets.com", "/", "a">>, <<"s">>, "kdnuggets", "rss_basic"),
      [Article(TitleB, <<"https://", "thenewstack.io", "/", "b">>, <<>>, "the_new_stack", "basic")
          EXCEPT !.final_score = 95] }

RECURSIVE ListsUpTo(_, _)
ListsUpTo(pool, n) ==
    IF n = 0 THEN {<<>>}
    ELSE LET shorter == ListsUpTo(pool, n - 1)
         IN  shorter \cup
             {Append(t, x) : t \in {u \in shorter : Len(u) = n - 1}, x \in pool}

SampleTexts ==
    { << <<"Quality", ":", " ", "8", "/", "1", "0">>, <<"Relevance", ":", " ", "7", "/", "1", "0">> >>,
      << <<"Quality", ":", " ", "1", "5", "/", "1", "0">>, <<"Relevance", ":", " ", "1", "2">> >>,
      << <<"Quality", ":", " ", "-", "3", "/", "1", "0">> >>,
      << <<"Relevance", ":", " ", "7", "/", "1", "0">> >>,
      << <<"I", " ", "cannot", " ", "rate", " ", "8", "/", "1", "0">> >> }

InitCurate ==
    /\ AnalyzeIdle
    /\ CurateIdle
    /\ FetchIdle
    /\ PipelineIdle
    /\ PureIdle

NextCurate ==
    \/ /\ \E entry \in CurateEntries,
             arts \in ListsUpTo(CuratePool, MaxArticles),
             count \in 0..MaxCount :
                /\ entry = "batch_analyze_articles" => count >= 1
                /\ CurateCall(entry, arts, count)
       /\ UNCHANGED <<uvars, avars, fvars, pvars>>
    \/ /\ CurateIteration(ServiceBehaviours(SampleTexts))
       /\ UNCHANGED <<uvars, avars, fvars, pvars>>

SpecCurate == InitCurate /\ [][NextCurate]_vars

\* ---- one source through the fetch chain ----
FetchSources == {"kdnuggets", "ai_news", "the_new_stack", "other_site"}

\* the k-th entry of the reference feed of a source: repeated URLs, titles
\* that differ in case only, an empty title, a missing title
ReferenceEntry(source, k) ==
    LET host == SourceUrl(source)[2]
        u(slug) == <<"https://", host, "/2025/", slug>>
    IN  CASE k % 6 = 1 -> FeedEntry(TitleA, TRUE, u("p1"), TRUE)
          [] k % 6 = 2 -> FeedEntry(<<>>, TRUE, u("p2"), TRUE)
          [] k % 6 = 3 -> FeedEntry(TitleAUpper, TRUE, u("p3"), TRUE)
          [] k % 6 = 4 -> FeedEntry(<<>>, FALSE, u("p1"), TRUE)
          [] k % 6 = 5 -> FeedEntry(TitleB, TRUE, u("p2"), TRUE)
          [] OTHER -> FeedEntry(TitleB, TRUE, <<"https://", host, "/categories/", "p4">>, TRUE)

Feed(source, n, broken, parse_raises) ==
    [parse_raises |-> parse_raises,
     entries |-> [k \in 1..n |->
                    IF k = broken
                    THEN [ReferenceEntry(source, k) EXCEPT !.has_link = FALSE, !.link = <<>>]
                    ELSE ReferenceEntry(source, k)]]

\* feeds of 0..MaxFeed entries; at most one entry without a link
Feeds(source) ==
    {Feed(source, n, 0, TRUE) : n \in {0}} \cup
    UNION {{Feed(source, n, broken, FALSE) : broken \in 0..n} : n \in 0..MaxFeed}

LinkPool(source) ==
    LET host == SourceUrl(source)[2]
    IN  { Link(<<"https://", host, "/2025/", "p1">>, TitleA, {"article"}),
          Link(<<"/news/", "p5">>, TitleB, {"h2"}),
          Link(<<"https://", host, "/2025/", "p1">>, TitleB, {"h2"}),
          Link(<<"blog", "/news/", "p6">>, TitleB, {"article"}),
          Link(<<"/", "p7">>, TitleA, {"h3"}),
          Link(<<"/2024/", "p8">>, Title15, {}),
          Link(<<"/categories/", "ai">>, TitleA, {"article", "h2"}) }

Fetch(get1_ok, get2_ok, page) == [get1_ok |-> get1_ok, get2_ok |-> get2_ok, page |-> page]

Fetches(source) ==
    {Fetch(FALSE, TRUE, <<>>), Fetch(TRUE, FALSE, <<>>)} \cup
    {Fetch(TRUE, TRUE, page) : page \in ListsUpTo(LinkPool(source), MaxLinks)}

ContainerPool ==
    { Container(<<TitleA>>, TRUE, <<"/2025/", "p1">>),
      Container(<<Title10, Title11>>, FALSE, <<>>),
      Container(<<Title10>>, TRUE, <<"/news/", "p9">>),
      Container(<<TitleB>>, TRUE, <<"https://", "www.kdnuggets.com", "/news/", "p9">>) }

Render(extractor, driver, loaded, groups) ==
    [extractor |-> extractor, driver |-> driver, loaded |-> loaded, groups |-> groups]

Renders ==
    {Render(FALSE, FALSE, FALSE, <<>>), Render(TRUE, FALSE, FALSE, <<>>),
     Render(TRUE, TRUE, FALSE, <<>>)} \cup
    {Render(TRUE, TRUE, TRUE, <<cs, <<Container(<<TitleB>>, TRUE, <<"/news/", "p10">>)>> >>) :
        cs \in ListsUpTo(ContainerPool, MaxContainers)}

ContentPatterns ==
    {<<"page">>, <<"fail">>, <<"untitled_page">>, <<"page", "fail">>, <<"fail", "page">>}

InitFetch ==
    /\ AnalyzeIdle
    /\ CurateIdle
    /\ FetchIdle
    /\ PipelineIdle
    /\ PureIdle

NextFetch ==
    \/ /\ \E source \in FetchSources : ExtractFromWebsite(source)
       /\ UNCHANGED <<uvars, avars, cvars, pvars>>
    \/ /\ RssStep(Feeds(fsrc))
       /\ UNCHANGED <<uvars, avars, cvars, pvars>>
    \/ /\ BasicStep(Fetches(fsrc))
       /\ UNCHANGED <<uvars, avars, cvars, pvars>>
    \/ /\ SeleniumStep(Renders)
       /\ UNCHANGED <<uvars, avars, cvars, pvars>>
    \/ /\ FinishStep(ContentPatterns)
       /\ UNCHANGED <<uvars, avars, cvars, pvars>>

SpecFetch == InitFetch /\ [][NextFetch]_vars

\* ---- the whole run, over small documents ----
PipeFeeds(source) == {Feed(source, n, 0, FALSE) : n \in 0..MaxPipeFeed}

\* a page whose one link goes to an article of kdnuggets
CrossLink == Link(<<"https://", "www.kdnuggets.com", "/2025/", "p1">>, TitleB, {"article"})

\* a link to an article of the site itself
OwnLink == Link(<<"/news/", "p5">>, TitleA, {"h2"})

PipeFetches ==
    {Fetch(FALSE, TRUE, <<>>), Fetch(TRUE, TRUE, <<CrossLink>>), Fetch(TRUE, TRUE, <<OwnLink>>)}

PipeRenders ==
    {Render(FALSE, FALSE, FALSE, <<>>),
     Render(TRUE, TRUE, TRUE, << <<Container(<<Title11>>, TRUE, <<"/news/", "p9">>)>> >>)}

PipePatterns == {<<"page">>, <<"fail">>}

GoodReply ==
    << <<"Quality", ":", " ", "8", "/", "1", "0">>, <<"Relevance", ":", " ", "7", "/", "1", "0">> >>

LowReply ==
    << <<"Quality", ":", " ", "3", "/", "1", "0">>, <<"Relevance", ":", " ", "4", "/", "1", "0">> >>

PipeBehaviours ==
    { [version |-> "exception", tags |-> "has_model", generate |-> "ok", text |-> <<>>],
      [version |-> "ok", tags |-> "has_model", generate |-> "ok", text |-> GoodReply],
      [version |-> "ok", tags |-> "has_model", generate |-> "ok", text |-> LowReply] }

StoreResults == {"ok", "failed", "exception"}

Init ==
    /\ AnalyzeIdle
    /\ CurateIdle
    /\ FetchIdle
    /\ PipelineIdle
    /\ PureIdle

Next ==
    \/ RunCompletePipeline
    \/ SourceCall
    \/ /\ ppc = "sources"
       /\ RssStep(PipeFeeds(fsrc))
       /\ UNCHANGED <<uvars, avars, cvars, pvars>>
    \/ /\ ppc = "sources"
       /\ BasicStep(PipeFetches)
       /\ UNCHANGED <<uvars, avars, cvars, pvars>>
    \/ /\ ppc = "sources"
       /\ SeleniumStep(PipeRenders)
       /\ UNCHANGED <<uvars, avars, cvars, pvars>>
    \/ /\ ppc = "sources"
       /\ FinishStep(PipePatterns)
       /\ UNCHANGED <<uvars, avars, cvars, pvars>>
    \/ SourceReturn
    \/ \E saved \in BOOLEAN : ProcessAndFilterArticles(saved)
    \/ PipelineCurate(PipeBehaviours)
    \/ \E saved \in BOOLEAN : ProcessReturn(saved)
    \/ StoreInVectorDb(StoreResults)
    \/ GetRelevantInsights
    \/ GenerateComprehensiveReport

Spec == Init /\ [][Next]_vars

\* ---- the run, with a KeyboardInterrupt at any of its steps ----
NextCancel ==
    \/ Next
    \/ Interrupt
    \/ InterruptInIsAvailable(PipeBehaviours)

SpecCancel == Init /\ [][NextCancel]_vars

\* ---- the entry points that build a pipeline and extract ----
NextEntries ==
    \/ Next
    \/ RunExtractionOnly
    \/ \E saved \in BOOLEAN : ExtractionOnlyReturn(saved)

SpecEntries == Init /\ [][NextEntries]_vars

\* ---- the title passes on their own ----
Slugs == <<"p1", "p2", "p3", "p4", "p5", "p6">>

\* articles with the given titles, in order, each with a URL of its own
Titled(titles) ==
    [k \in 1..Len(titles) |->
       Article(titles[k], <<"https://", "www.kdnuggets.com", "/2025/", Slugs[k]>>,
               <<>>, "kdnuggets", "rss_basic")]

\* stripped titles, as the strategies and the enhancement leave them
PassTitles == {TitleA, TitleAUpper, TitleB, Title15, NoTitle, <<>>}

\* deduplicate_articles takes any list: also titles with spaces around them
UtilTitles == PassTitles \cup {<<" ">> \o TitleA, <<" ">>}

InitDedup ==
    /\ AnalyzeIdle
    /\ CurateIdle
    /\ FetchIdle
    /\ PipelineIdle
    /\ PureIdle

NextDedup ==
    \/ ApplyTitlePass({Titled(t) : t \in ListsUpTo(PassTitles, MaxDedup)})
    \/ ApplyTitlePassAgain
    \/ ApplyDeduplicate({Titled(t) : t \in ListsUpTo(UtilTitles, MaxDedup)})
    \/ ApplyDeduplicateAgain

SpecDedup == InitDedup /\ [][NextDedup]_vars

\* ---- detect_trends on its own ----
TrendTitles ==
    {<<"GPT", "news">>, <<"ChatGPT", "NLP">>, <<"learning", "NLP">>, <<"Deep">>,
     <<"OpenAI", "model">>, <<>>}

TrendSummaries ==
    {<<"gpt", "GPT">>, <<"learning", "Machine">>, <<"NLP", "news">>,
     <<"OpenAI", "model">>, <<>>}

TrendArticles == {[title |-> t, summary |-> u] : t \in TrendTitles, u \in TrendSummaries}

InitTrends ==
    /\ AnalyzeIdle
    /\ CurateIdle
    /\ FetchIdle
    /\ PipelineIdle
    /\ PureIdle

NextTrends == ApplyDetectTrends(ListsUpTo(TrendArticles, MaxTrendArticles))

SpecTrends == InitTrends /\ [][NextTrends]_vars

\* ---- _extract_article_text on its own ----
Paragraph60 == Element("p", "", <<Rep("p", 60)>>)

DocElements ==
    {Element("article", "", <<Rep("x", 201)>>),
     Element("article", "", <<Rep("y", 200)>>),
     Element("main", "", <<Rep("m", 150), Rep("n", 60)>>),
     Element("div", "content", <<Rep("c", 100), Rep("d", 100)>>),
     Element("div", "", <<Rep("e", 120)>>),
     Paragraph60,
     Element("p", "", <<Rep("q", 100)>>),
     Element("p", "", <<Rep("r", 50)>>),
     Element("p", "", <<>>)}

InitText ==
    /\ AnalyzeIdle
    /\ CurateIdle
    /\ FetchIdle
    /\ PipelineIdle
    /\ PureIdle

NextText == ApplyExtractArticleText(ListsUpTo(DocElements, MaxElements))

SpecText == InitText /\ [][NextText]_vars

\* ---- extract_from_rss on its own: feeds of up to MaxRssFeed entries ----
LongFeeds(source) ==
    {Feed(source, n, 0, TRUE) : n \in {0, MaxRssFeed}} \cup
    UNION {{Feed(source, n, broken, FALSE) : broken \in 0..n} : n \in 0..MaxRssFeed}

InitRss ==
    /\ AnalyzeIdle
    /\ CurateIdle
    /\ FetchIdle
    /\ PipelineIdle
    /\ PureIdle

NextRss ==
    ApplyExtractFromRss(UNION {{[feed |-> feed, source |-> source] : feed \in LongFeeds(source)} :
                                 source \in RssSources})

SpecRss == InitRss /\ [][NextRss]_vars

\* ---- find_actual_article_urls on its own, for the four kinds of site ----
StaticBases ==
    {SourceUrl("kdnuggets"), SourceUrl("ai_news"), SourceUrl("the_new_stack"), SourceUrl("other")}

\* links of a page of the site: an article, the about and contact pages, a
\* fragment link, a script link, a short link text, a second article under
\* another heading, two pages whose paths hold no year and no section (one
\* at the top level, one three levels down), the first article again
StaticLinks(base) ==
    { Link(<<"/2025/", "p1">>, TitleB, {"h2"}),
      Link(<<"/about">>, TitleA, {"h2"}),
      Link(<<"/contact">>, TitleB, {"article"}),
      Link(<<"/2025/", "p1", "#", "comments">>, TitleA, {"h3"}),
      Link(<<"javascript:", "void(0)">>, TitleA, {"h2"}),
      Link(<<"/2025/", "p2">>, Title15, {"h2"}),
      Link(<<"/news/", "p3">>, TitleA, {"h3"}),
      Link(<<"/", "p7">>, TitleB, {"h2"}),
      Link(<<"/ai/", "2023", "/", "p9">>, TitleA, {"h2"}),
      Link(<<base[1], base[2], "/2025/", "p1">>, TitleA, {"article"}) }

LongSlugs ==
    <<"s01", "s02", "s03", "s04", "s05", "s06", "s07", "s08", "s09",
      "s10", "s11", "s12", "s13", "s14", "s15", "s16", "s17">>

\* a page of n articles
LongPage(n) == [k \in 1..n |-> Link(<<"/2025/", LongSlugs[k]>>, TitleB, {"h2"})]

StaticPages(base) ==
    ListsUpTo(StaticLinks(base), MaxStaticLinks) \cup {LongPage(n) : n \in {15, 16, 17}}

InitStatic ==
    /\ AnalyzeIdle
    /\ CurateIdle
    /\ FetchIdle
    /\ PipelineIdle
    /\ PureIdle

NextStatic ==
    ApplyFindActualArticleUrls(UNION {{[base |-> base, page |-> page] : page \in StaticPages(base)} :
                                        base \in StaticBases})

SpecStatic == InitStatic /\ [][NextStatic]_vars

\* ---- parse_detailed_insights on its own ----
InsightReplyLines ==
    { <<"Key Takeaways:">>,
      <<"business impact:">>,
      <<"TECHNICAL DETAILS:">>,
      <<" ", "Action Items:", " ">>,
      <<"-", " ", "ship", " ", "it">>,
      <<"a-circumflex", "euro", "cent", " ", "adopt">>,
      <<"costs", " ", "fall">>,
      <<" ", "uses", " ", "attention", " ">>,
      <<"*", " ", "starred">>,
      <<"-", " ", "see", " ", "TAKEAWAYS:">>,
      <<>> }

InitInsights ==
    /\ AnalyzeIdle
    /\ CurateIdle
    /\ FetchIdle
    /\ PipelineIdle
    /\ PureIdle

NextInsights == ApplyParseDetailedInsights(ListsUpTo(InsightReplyLines, MaxInsightLines))

SpecInsights == InitInsights /\ [][NextInsights]_vars

\* ---- enhance_articles_with_content on its own ----
\* candidates with and without title, with an absolute, a relative, an empty
\* and a listing URL
EnhanceCandidates ==
    { Article(TitleA, <<"https://", "www.kdnuggets.com", "/2025/", "p1">>, <<"feed summary">>, "kdnuggets", "rss_basic"),
      Article(<<>>, <<"https://", "thenewstack.io", "/2025/", "p2">>, <<>>, "the_new_stack", "selenium"),
      Article(TitleB, <<>>, <<>>, "ai_news", "selenium"),
      Article(TitleB, <<"https://", "www.kdnuggets.com", "/categories/", "p4">>, <<>>, "kdnuggets", "rss_basic"),
      Article(Title10, <<"blog", "/news/", "p6">>, <<>>, "ai_news", "basic") }

InitEnhance ==
    /\ AnalyzeIdle
    /\ CurateIdle
    /\ FetchIdle
    /\ PipelineIdle
    /\ PureIdle

NextEnhance ==
    ApplyEnhanceArticles({[articles |-> list, pattern |-> pattern] :
                             list \in ListsUpTo(EnhanceCandidates, MaxEnhance),
                             pattern \in ContentPatterns})

SpecEnhance == InitEnhance /\ [][NextEnhance]_vars

\* ---- generate_response on its own ----
InitGenerate ==
    /\ AnalyzeIdle
    /\ CurateIdle
    /\ FetchIdle
    /\ PipelineIdle
    /\ PureIdle

NextGenerate == ApplyGenerateResponse(ServiceBehaviours(TextsUpTo(MaxLines)))

SpecGenerate == InitGenerate /\ [][NextGenerate]_vars

(***************************************************************************)
(* Properties.                                                             *)
(***************************************************************************)
FieldWords == {"Quality", "Relevance", "Category", "Insights", "Reason"}

GenerationFailed(b) ==
    b.version # "ok" \/ b.tags # "has_model" \/ b.generate # "ok"

BlankLine(line) == \A k \in 1..Len(line) : line[k] \in Whitespace

EmptyReply(text) == \A k \in 1..Len(text) : BlankLine(text[k])

HasFieldPrefix(line) ==
    \E k \in 1..Len(line) :
        /\ \A j \in 1..(k - 1) : line[j] \in Whitespace
        /\ line[k] \in FieldWords
        /\ k < Len(line)
        /\ line[k + 1] = ":"

NoFieldPrefix(text) == \A k \in 1..Len(text) : ~HasFieldPrefix(text[k])

\* C1: whatever the generation service replies (failure, empty text,
\* garbage, out-of-range or negative numbers), the quality_score and the
\* relevance_score of the returned analysis are integers within 1..10.
C1_ScoresWithinRange ==
    apc = "returned" =>
        /\ analysis.quality_score \in 1..10
        /\ analysis.relevance_score \in 1..10

\* a reply "Quality: -3/10" then "Relevance: 12" was analysed: both clamped
C1_Witness ==
    /\ apc = "returned"
    /\ svc.text = << <<"Quality", ":", " ", "-", "3", "/", "1", "0">>,
                     <<"Relevance", ":", " ", "1", "2">> >>
    /\ analysis.quality_score = 1
    /\ analysis.relevance_score = 10

\* C2: a failed generation call or an empty reply makes
\* analyze_article_quality return, without raising, the fallback record
\* (quality 5, relevance 5, "AI/ML", one generic insight, reason "LLM
\* analysis failed"); a non-empty reply without any field prefix also gives
\* quality 5 and relevance 5; (5 + 5) / 2 = 5.0 in both cases.
C2_FallbackOnFailure ==
    /\ apc # "raised"
    /\ apc = "returned" =>
        /\ (GenerationFailed(svc) \/ EmptyReply(svc.text)) =>
              analysis = [quality_score |-> 5,
                          relevance_score |-> 5,
                          category |-> <<"AI/ML">>,
                          insights |-> << <<"Unable to analyze with LLM">> >>,
                          reason |-> <<"LLM analysis failed">>,
                          llm_analysis |-> FALSE,
                          raw_response |-> <<>>]
        /\ (~GenerationFailed(svc) /\ ~EmptyReply(svc.text) /\ NoFieldPrefix(svc.text)) =>
              /\ analysis.quality_score = 5
              /\ analysis.relevance_score = 5
              /\ analysis.quality_score + analysis.relevance_score = 2 * 5

\* the POST /api/generate timed out and the fallback record came back
C2_Witness ==
    /\ apc = "returned"
    /\ svc.version = "ok"
    /\ svc.tags = "has_model"
    /\ svc.generate = "exception"
    /\ analysis.reason = <<"LLM analysis failed">>
    /\ analysis.llm_analysis = FALSE

Unscored(a) == [a EXCEPT !.llm_analysis = NoAnalysis, !.final_score = NoScore]

UnscoredList(s) == [k \in 1..Len(s) |-> Unscored(s[k])]

\* C3: whatever each article's generation call does, curate_articles ends
\* without raising and returns a permutation of its input in which every
\* article carries an llm_analysis record and a final_score.
C3_CurateNeverRaises ==
    /\ cpc # "raised"
    /\ cpc = "loop" => ci \in 1..Len(cin) /\ Len(curated) = ci - 1
    /\ cpc = "returned" =>
        /\ Len(curated) = Len(cin)
        /\ \A x \in Range(UnscoredList(cin)) :
              Count(UnscoredList(curated), x) = Count(UnscoredList(cin), x)
        /\ \A k \in 1..Len(curated) :
              /\ curated[k].llm_analysis # NoAnalysis
              /\ curated[k].llm_analysis.quality_score \in 1..10
              /\ curated[k].final_score # NoScore
              /\ curated[k].final_score >= 10

\* three articles were curated while the service failed for one of them
C3_Witness ==
    /\ cpc = "returned"
    /\ centry = "curate_articles"
    /\ Len(cin) = 3
    /\ \E k \in 1..3 : curated[k].llm_analysis.llm_analysis = FALSE
    /\ \E k \in 1..3 : curated[k].llm_analysis.llm_analysis = TRUE

\* ---- the pipeline run ----
Finished == ppc = "done"

StepsEntered == Range(steps)

EveryGenerationFailed ==
    \A k \in 1..Len(all_articles) : all_articles[k].llm_analysis = FallbackAnalysis

\* C4: in run_complete_pipeline, whenever extraction yielded at least one
\* article and every generation call of the run failed (every article got
\* the fallback scores), the run has entered the storage step and the report
\* step by the time it ends.
C4_GenerationFailureNeverBlocks ==
    (Finished /\ all_articles # <<>> /\ EveryGenerationFailed)
        => ("store" \in StepsEntered /\ "report" \in StepsEntered)

\* ---- the fetch chain ----
Rank(strategy) ==
    CASE strategy = "rss" -> 1 [] strategy = "basic" -> 2 [] OTHER -> 3

Invoked(strategy) == \E k \in 1..Len(calls) : calls[k].strategy = strategy

CollectedAfter(k) == calls[k].before \o calls[k].got

ChainOver == fpc \in {"finish", "returned"}

FirstStrategy(source) == IF source \in RssSources THEN "rss" ELSE "basic"

\* C5: extract_from_website invokes the strategies in the order feed, static,
\* rendered, starting with the first applicable one and skipping none; a
\* strategy after the first is invoked only while fewer than 5 candidates
\* are collected, the chain ends only after the rendered fetch or with at
\* least 5 candidates, and the rendered fetch is invoked only when feed and
\* static fetch together gave fewer than 5.
C5_StrategyOrder ==
    /\ \A k \in 1..Len(calls) :
          /\ k = 1 => /\ calls[k].strategy = FirstStrategy(fsrc)
                      /\ calls[k].before = <<>>
          /\ k > 1 => /\ Rank(calls[k].strategy) = Rank(calls[k - 1].strategy) + 1
                      /\ calls[k].before = CollectedAfter(k - 1)
          /\ Len(calls[k].before) < 5
    /\ ChainOver =>
          /\ calls # <<>>
          /\ articles = CollectedAfter(Len(calls))
          /\ calls[Len(calls)].strategy = "selenium" \/ Len(articles) >= 5

\* a run where feed and static fetch reach 5 together and the rendered fetch
\* is left out
C5_Witness ==
    /\ fpc = "returned"
    /\ Len(calls) = 2
    /\ calls[1].strategy = "rss" /\ Len(calls[1].got) \in 1..4
    /\ calls[2].strategy = "basic" /\ Len(calls[2].got) >= 1
    /\ Len(articles) >= 5

C7_ChainOutputWellFormed ==
    fpc = "returned" =>
       /\ \A j, k \in 1..Len(fetched) : j < k => fetched[j].url # fetched[k].url
       /\ \A k \in 1..Len(fetched) :
             /\ fetched[k].title # <<>>
             /\ fetched[k].url # <<>>
             /\ IsAbsolute(fetched[k].url)

\* the elements of s at the positions in keep, in order
RECURSIVE SubAt(_, _, _)
SubAt(s, k, keep) ==
    IF k > Len(s) THEN <<>>
    ELSE (IF k \in keep THEN <<s[k]>> ELSE <<>>) \o SubAt(s, k + 1, keep)

FirstWithUrl(s) ==
    {k \in 1..Len(s) : s[k].url # <<>> /\ \A j \in 1..(k - 1) : s[j].url # s[k].url}

UrlsOf(s) == {s[k].url : k \in 1..Len(s)} \ {<<>>}

\* C8: the URL pass yields the subsequence of the merged list made of the
\* first candidate carrying each distinct URL: no URL twice, every URL of
\* the merged list once, the merged order kept.
C8_UrlPassFirstOccurrence ==
    fpc = "returned" =>
       /\ unique = SubAt(articles, 1, FirstWithUrl(articles))
       /\ \A j, k \in 1..Len(unique) : j < k => unique[j].url # unique[k].url
       /\ UrlsOf(unique) = UrlsOf(articles)

\* the static fetch gave 3 links and the rendered fetch 4 candidates; a URL
\* of the static fetch came again from the rendered one, whose carrier is gone
C8_Witness ==
    /\ fpc = "returned"
    /\ \E k \in 1..Len(calls) : calls[k].strategy = "basic" /\ Len(calls[k].got) = 3
    /\ \E k \in 1..Len(calls) : calls[k].strategy = "selenium" /\ Len(calls[k].got) = 4
    /\ \E j, k \in 1..Len(articles) :
          /\ j < k
          /\ articles[j].url = articles[k].url
          /\ articles[j].url # <<>>
          /\ articles[j].extraction_method # articles[k].extraction_method
    /\ Len(unique) >= 2
    /\ Len(unique) < Len(articles)

\* ---- the lists handed on ----
\* the title as the spec compares it: case-folded and trimmed
TitleKey(a) == Strip(Lower(a.title))

\* C9: among the articles of all sources handed to curation no two have the
\* same URL, and no two have the same case-insensitive trimmed title of more
\* than 15 characters.
C9_NoDuplicateHandedToCuration ==
    \A j, k \in 1..Len(all_articles) :
       j < k =>
          /\ all_articles[j].url # all_articles[k].url
          /\ Len(TitleKey(all_articles[j])) > 15
                => TitleKey(all_articles[j]) # TitleKey(all_articles[k])

\* the title pass has just run over the list of source si - 1
TitlePassDone == ppc = "sources" /\ fpc = "idle" /\ si > 1

PassedOut == results[si - 1].articles

FirstWithTitle(s) ==
    {k \in 1..Len(s) : \A j \in 1..(k - 1) : TitleKey(s[j]) # TitleKey(s[k])}

LongTitled(s) == {k \in 1..Len(s) : Len(s[k].title) > 15}

C11_TitlePassIdempotent ==
    ufn \in {"title_pass_again", "deduplicate_articles_again"} => uout = uin

\* the title pass applied again to a list of two candidates, the first and
\* the third of a list whose second candidate the first application removed
C11_Witness ==
    /\ ufn = "title_pass_again"
    /\ Len(uin) = 2
    /\ Lower(uin[1].title) # Lower(uin[2].title)
    /\ uin[2].url = <<"https://", "www.kdnuggets.com", "/2025/", "p3">>

\* ---- curation, continued ----
\* twice the final score, in tenths, against the sum of the two scores
ScoreIsMean(a) ==
    a.final_score * 2 = (a.llm_analysis.quality_score + a.llm_analysis.relevance_score) * 10

\* C12: every article that curate_articles, select_top_articles or
\* batch_analyze_articles has scored or returned has final_score equal to
\* half the sum of the quality and relevance scores of its own llm_analysis,
\* whatever final_score it carried before.
C12_FinalScoreIsMean ==
    \A a \in Range(curated) \cup Range(selected) :
       /\ a.llm_analysis # NoAnalysis
       /\ ScoreIsMean(a)

\* batch_analyze_articles returned the article of the pool that comes in
\* with final_score 9.5, and it now carries 7.5, the mean of 8 and 7
C12_Witness ==
    /\ cpc = "returned"
    /\ centry = "batch_analyze_articles"
    /\ \E k \in 1..Len(curated) :
          /\ curated[k].title = TitleB
          /\ curated[k].llm_analysis.quality_score = 8
          /\ curated[k].llm_analysis.relevance_score = 7
          /\ curated[k].final_score = 75

\* the place article k of the scored list takes in a stable sort by
\* final_score, highest first
PlaceOf(s, k) ==
    1 + Cardinality({j \in 1..Len(s) :
                        \/ s[j].final_score > s[k].final_score
                        \/ s[j].final_score = s[k].final_score /\ j < k})

AtPlace(s, q) == CHOOSE k \in 1..Len(s) : PlaceOf(s, k) = q

StableSorted(s) == [q \in 1..Len(s) |-> s[AtPlace(s, q)]]

\* the positions of the articles of s with a final score of 6.0 or more
AtLeastSix(s) == {k \in 1..Len(s) : s[k].final_score >= 60}

FirstOf(s, n) == [k \in 1..(IF n < Len(s) THEN n ELSE Len(s)) |-> s[k]]

\* C13: select_top_articles(articles, count) returns the scored articles,
\* stable-sorted by final_score from the highest (ties in input order), of
\* which those with final_score >= 6.0 are kept and the first count taken:
\* at most count articles, each with final_score >= 6.0, in non-increasing
\* order of score.
C13_SelectTopIsReference ==
    (cpc = "returned" /\ centry = "select_top_articles") =>
       /\ curated = StableSorted(cin)
       /\ selected = FirstOf(SubAt(curated, 1, AtLeastSix(curated)), ccount)
       /\ Len(selected) <= ccount
       /\ \A k \in 1..Len(selected) : selected[k].final_score >= 60
       /\ \A j, k \in 1..Len(selected) :
             j < k => selected[j].final_score >= selected[k].final_score

\* three articles, two of them with the same score and one below 6.0 between
\* them in the input; count 2 keeps the two, in input order
C13_Witness ==
    /\ cpc = "returned"
    /\ centry = "select_top_articles"
    /\ ccount = 2
    /\ Len(cin) = 3
    /\ cin[1].final_score = 75 /\ cin[1].title = TitleB
    /\ cin[2].final_score < 60
    /\ cin[3].final_score = 75 /\ cin[3].title = TitleA
    /\ selected = <<cin[1], cin[3]>>

\* the loop of extract_multiple_sources is over
SourcesDone == ppc # "idle" /\ si > Len(get_enabled_sources)

\* every strategy tried for the source at hand failed
AllStrategiesFailed ==
    /\ calls # <<>>
    /\ \A k \in 1..Len(calls) : calls[k].failed

\* C14: extract_multiple_sources gives exactly one result record per enabled
\* source, in the order of the table, and none for a disabled source; in each
\* record article_count is the number of its articles and success holds
\* exactly when that number is positive; a source whose strategies all fail
\* raises nothing and gets a record with count 0, and the sources after it
\* still get their records.
C14_OneRecordPerEnabledSource ==
    /\ fpc # "raised"
    /\ Len(results) <= Len(get_enabled_sources)
    /\ \A k \in 1..Len(results) :
          /\ results[k].source = get_enabled_sources[k]
          /\ results[k].source \in enabled
          /\ results[k].article_count = Len(results[k].articles)
          /\ results[k].success <=> results[k].article_count > 0
    /\ \A j, k \in 1..Len(results) : j # k => results[j].source # results[k].source
    /\ SourcesDone =>
          /\ Len(results) = Cardinality(enabled)
          /\ {results[k].source : k \in 1..Len(results)} = enabled
    /\ (ppc = "sources" /\ fpc = "returned" /\ AllStrategiesFailed) =>
          /\ fetched = <<>>
          /\ SourceResult(fsrc, TitlePass(fetched, {})).article_count = 0
          /\ ~SourceResult(fsrc, TitlePass(fetched, {})).success

\* ai_news is disabled; every strategy failed for kdnuggets, whose record has
\* count 0, and the_new_stack after it has its record with articles
C14_Witness ==
    /\ SourcesDone
    /\ enabled = {"kdnuggets", "the_new_stack"}
    /\ Len(results) = 2
    /\ results[1].source = "kdnuggets" /\ results[1].article_count = 0 /\ ~results[1].success
    /\ results[2].source = "the_new_stack" /\ results[2].article_count > 0 /\ results[2].success

\* the enhancement has run over the list of the URL pass
Enhanced == fpc = "returned" /\ unique # <<>>

\* the k-th candidate was handed to extract_full_article_content
Fetched(k) == unique[k].url # <<>> /\ ~Contains(unique[k].url, "/categories/")

\* C15: when the content extraction of a candidate fails,
\* enhance_articles_with_content keeps the candidate at its place with title,
\* url, summary, source and category (and every other field) unchanged,
\* adding only content_extracted = False and the error string, and goes on
\* with the next candidate.
C15_FailedExtractionKeepsCandidate ==
    Enhanced =>
       /\ Len(fetched) = Len(unique)
       /\ \A k \in 1..Len(unique) :
             /\ fetched[k].content_extracted = "false" =>
                   /\ fetched[k].title = unique[k].title
                   /\ fetched[k].url = unique[k].url
                   /\ fetched[k].summary = unique[k].summary
                   /\ fetched[k].source = unique[k].source
                   /\ fetched[k].category = unique[k].category
                   /\ fetched[k].extraction_error # <<>>
                   /\ fetched[k] = [unique[k] EXCEPT !.content_extracted = "false",
                                                     !.extraction_error = fetched[k].extraction_error]
             /\ Fetched(k) => fetched[k].content_extracted \in {"true", "false"}

\* the first candidate's page could not be fetched and the second one's could
C15_Witness ==
    /\ Enhanced
    /\ Len(unique) >= 2
    /\ fetched[1].content_extracted = "false"
    /\ unique[1].summary # <<>>
    /\ fetched[1].summary = unique[1].summary
    /\ fetched[2].content_extracted = "true"

\* the text detect_trends counts in
Corpus == TotalText(uin)

\* the places in the vocabulary of the terms counted at least twice
Repeated == {i \in 1..Len(ai_terms) : TermCount(Corpus, ai_terms[i]) >= 2}

\* the repeated terms that come before term i: a higher count, or the same
\* count and an earlier place in the vocabulary
Before(i) ==
    {j \in Repeated :
        \/ TermCount(Corpus, ai_terms[j]) > TermCount(Corpus, ai_terms[i])
        \/ TermCount(Corpus, ai_terms[j]) = TermCount(Corpus, ai_terms[i]) /\ j < i}

\* C16: detect_trends returns exactly the vocabulary terms counted at least
\* twice (case-insensitive substring count in the concatenated title+summary
\* text), limited to the 3 highest counts, by count descending with ties in
\* vocabulary order, each as "<term> developments (mentioned <count> times)".
C16_TrendsAreTopRepeatedTerms ==
    ufn = "detect_trends" =>
       /\ Len(uout) = Min(3, Cardinality(Repeated))
       /\ \A i \in Repeated :
             Cardinality(Before(i)) < 3 =>
                uout[Cardinality(Before(i)) + 1] =
                   <<ai_terms[i], " developments (mentioned ", TermCount(Corpus, ai_terms[i]), " times)">>

\* "GPT" three times across two articles and "NLP" once
C16_Witness ==
    /\ ufn = "detect_trends"
    /\ uin = <<[title |-> <<"GPT", "news">>, summary |-> <<"NLP", "news">>],
               [title |-> <<>>, summary |-> <<"gpt", "GPT">>]>>
    /\ uout = << <<"GPT", " developments (mentioned ", 3, " times)">> >>

\* the first element of the document matching the k-th content selector
FirstMatch(k) ==
    LET at == {j \in 1..Len(uin) : MatchesContent(uin[j], content_selectors[k])}
    IN  uin[CHOOSE j \in at : \A i \in at : j <= i]

\* the content selectors whose first element has a text (its text nodes joined
\* with spaces) longer than 200 characters
LongContainers ==
    {k \in 1..Len(content_selectors) :
        /\ \E j \in 1..Len(uin) : MatchesContent(uin[j], content_selectors[k])
        /\ Len(GetTextSpaced(FirstMatch(k))) > 200}

\* the texts of the p and div elements longer than 50 characters, joined
LongBlocks ==
    JoinSpaced(SelectSeq([j \in 1..Len(uin) |->
                            IF uin[j].tag \in {"p", "div"} THEN GetText(uin[j]) ELSE <<>>],
                         LAMBDA t : Len(t) > 50))

\* the texts of all p elements, joined
AllParagraphs ==
    LET ps == SelectSeq(uin, LAMBDA e : e.tag = "p")
    IN  JoinSpaced([j \in 1..Len(ps) |-> GetText(ps[j])])

\* C17: the body text is the text of the first content container (selectors
\* in order, the first element of each) longer than 200 characters; else the
\* joined blocks longer than 50 characters if the joined text exceeds 200;
\* else all paragraphs joined; "No content extracted" is returned only when
\* the paragraph text is empty; a document of one 60-character paragraph
\* gives that paragraph's text.
C17_BodyTextCascade ==
    ufn = "extract_article_text" =>
       /\ LongContainers # {} =>
             uout = GetTextSpaced(FirstMatch(CHOOSE k \in LongContainers : \A i \in LongContainers : k <= i))
       /\ (LongContainers = {} /\ Len(LongBlocks) > 200) => uout = LongBlocks
       /\ (LongContainers = {} /\ Len(LongBlocks) <= 200 /\ AllParagraphs # <<>>) => uout = AllParagraphs
       /\ uout = NoContent <=> (LongContainers = {} /\ Len(LongBlocks) <= 200 /\ AllParagraphs = <<>>)
       /\ uin = <<Paragraph60>> => uout = Rep("p", 60)

\* the document of one 60-character paragraph and nothing else
C17_Witness ==
    /\ ufn = "extract_article_text"
    /\ uin = <<Paragraph60>>
    /\ Len(uout) = 60
    /\ uout # NoContent

\* the entries of the feed the fetch reads: the first 15
EntriesRead == SubSeq(uin.feed.entries, 1, Min(15, Len(uin.feed.entries)))

\* the feed cannot be parsed, or an entry read has no link
FeedError ==
    uin.feed.parse_raises \/ \E k \in 1..Len(EntriesRead) : ~EntriesRead[k].has_link

\* C18: the feed fetch returns at most 15 candidates, one per feed entry in
\* feed order, each tagged with the feed extraction method; on a parse or
\* network error, also one on a single entry, it returns the empty list and
\* does not raise.
C18_FeedFetchBounded ==
    ufn = "extract_from_rss" =>
       /\ ~uout.raised
       /\ Len(uout.items) <= 15
       /\ FeedError => uout.items = <<>>
       /\ ~FeedError =>
             /\ Len(uout.items) = Len(EntriesRead)
             /\ \A k \in 1..Len(EntriesRead) :
                   /\ uout.items[k].url = EntriesRead[k].link
                   /\ uout.items[k].title = (IF EntriesRead[k].has_title THEN EntriesRead[k].title ELSE NoTitle)
                   /\ uout.items[k].source = uin.source
                   /\ uout.items[k].extraction_method = "rss_basic"

\* a feed of 17 entries gives the first 15
C18_Witness ==
    /\ ufn = "extract_from_rss"
    /\ Len(uin.feed.entries) = 17
    /\ Len(uout.items) = 15
    /\ uout.items[15].url = uin.feed.entries[15].link
    /\ uout.items[15].extraction_method = "rss_basic"

\* the exclusion patterns named for every kind of site (about and contact
\* pages, javascript: links, fragment links) and the listing and tag
\* patterns of the site's own list
Exclusions(base) ==
    {"/about", "/contact", "javascript:", "#"} \cup SkipPatterns(SiteOf(base))

\* C19: for every kind of site (ai_news, kdnuggets, thenewstack, generic)
\* the static fetch returns at most 15 candidates with pairwise distinct
\* URLs, each with a link text longer than 15 characters and a URL that
\* matches no exclusion pattern.
C19_StaticCandidatesUsable ==
    ufn = "find_actual_article_urls" =>
       /\ Len(uout) <= 15
       /\ \A j, k \in 1..Len(uout) : j # k => uout[j].url # uout[k].url
       /\ \A k \in 1..Len(uout) :
             /\ Len(uout[k].title) > 15
             /\ ~ContainsAny(Lower(uout[k].url), Exclusions(uin.base))

\* the parts of C19 on the number of candidates, their URLs being distinct
\* and their link texts
C19_CountUrlsAndTexts ==
    ufn = "find_actual_article_urls" =>
       /\ Len(uout) <= 15
       /\ \A j, k \in 1..Len(uout) : j # k => uout[j].url # uout[k].url
       /\ \A k \in 1..Len(uout) : Len(uout[k].title) > 15

\* a step issues new work: the fetch of a source starts, or an article is analysed
NewWork ==
    \/ fpc = "idle" /\ fpc' # "idle"
    \/ cpc = "loop" /\ cin' # cin

\* the results accumulated by the run are still there after the step
ResultsKept ==
    /\ results' = results
    /\ all_articles' = all_articles
    /\ cin' = cin
    /\ curated' = curated

\* some articles have been extracted or curated
SomeArticles ==
    \/ \E k \in 1..Len(results) : results[k].article_count > 0
    \/ \E k \in 1..Len(cin) : cin[k].final_score # NoScore

\* C20: once a run is interrupted no new source or article work is issued,
\* and when some articles have been extracted or curated the step that ends
\* the run by the interrupt keeps the results accumulated so far for the
\* caller.
C20_CancelKeepsResults ==
    [][/\ interrupted => ~NewWork
       /\ (SomeArticles /\ run_result # "interrupted" /\ run_result' = "interrupted") => ResultsKept]_vars

\* the part of C20 on new work, for an interrupt that leaves the run
C20_PropagatedInterruptStopsWork ==
    (run_result = "interrupted") => (ppc = "done" /\ fpc = "idle" /\ cpc = "idle" /\ closed)

\* the steps of the run after the storage step
AfterStorage == ppc \in {"insights", "report"} \/ (ppc = "done" /\ "store" \in StepsEntered)

\* C21: a failure of the vector storage (add_articles returning success =
\* false, or raising) is returned as a result without success and does not
\* stop the run: insight retrieval and report generation are still performed
\* on the curated articles held in memory, and run_complete_pipeline returns
\* True.
C21_StorageFailureDoesNotStop ==
    (AfterStorage /\ storage = "failed") =>
       /\ filtered # <<>>
       /\ run_result \in {"none", "true"}
       /\ ppc = "report" => "insights" \in StepsEntered
       /\ Finished =>
             /\ steps = <<"extract", "process", "store", "insights", "report">>
             /\ run_result = "true"

\* the storage failed and the run has ended with True after the report
C21_Witness ==
    /\ Finished
    /\ storage = "failed"
    /\ run_result = "true"
    /\ "report" \in StepsEntered
    /\ filtered # <<>>

\* C22: whenever an entry point that created the extractor has terminated
\* (full run or extraction-only run, by success, early failure or exception),
\* the extractor's close() has been called, and no fetch is issued after it.
C22_ExtractorReleasedOnEveryExit ==
    /\ Finished => closed
    /\ closed => fpc = "idle"

\* the part of C22 on the full run
C22_FullRunReleasesExtractor ==
    /\ (Finished /\ steps[1] = "extract") => closed
    /\ closed => (Finished /\ fpc = "idle")

\* a request of the static strategy or of the enhancement to the source's host
ToSourceHost(e) ==
    /\ e.op = "get"
    /\ e.kind \in {"page", "discovery", "content"}
    /\ e.host = Netloc(SourceUrl(fsrc))

\* C23: while one source is fetched and extracted, a delay lies between any
\* two consecutive requests to the source's host (the static page fetch, the
\* URL-discovery fetch and each article-content fetch).
C23_DelayBetweenRequests ==
    \A i, j \in 1..Len(wire) :
       (i < j /\ ToSourceHost(wire[i]) /\ ToSourceHost(wire[j])) =>
          \E k \in (i + 1)..(j - 1) : wire[k] = Sleep \/ ToSourceHost(wire[k])

\* the delay of the enhancement loop follows every article-content request
C23_ContentFetchFollowedByDelay ==
    \A i \in 1..Len(wire) :
       wire[i].kind = "content" => (i < Len(wire) /\ wire[i + 1] = Sleep)

\* a field word in another letter case, as the parser spells it
Respelled(word) ==
    CASE word \in {"quality", "QUALITY"} -> "Quality"
      [] word \in {"relevance", "RELEVANCE"} -> "Relevance"
      [] OTHER -> word

\* the line with the word before its ":" spelled as the parser spells it
RespelledLine(line) ==
    [k \in 1..Len(line) |->
        IF /\ \A j \in 1..(k - 1) : line[j] \in Whitespace
           /\ k < Len(line)
           /\ line[k + 1] = ":"
        THEN Respelled(line[k])
        ELSE line[k]]

RespelledText(text) == [k \in 1..Len(text) |-> RespelledLine(text[k])]

\* C24: the parser of the quality reply matches the field prefixes whatever
\* their letter case: the record parsed from a reply is the record parsed
\* from the same reply with its prefixes spelled "Quality:", "Relevance:".
C24_PrefixCaseIgnored ==
    (apc = "returned" /\ analysis.llm_analysis) =>
       [analysis EXCEPT !.raw_response = <<>>] =
          [parse_quality_analysis(RespelledText(analysis.raw_response)) EXCEPT !.raw_response = <<>>]

\* the k-th line of the reply is a section header
HeaderLine(k) == \E h \in 1..Len(InsightHeaders) : InUpper(uin[k], InsightHeaders[h])

\* the section in force at the k-th line: that of the last header line
\* before it
ActiveAt(k) ==
    LET before == {j \in 1..(k - 1) : HeaderLine(j)}
    IN  IF before = {} THEN "none"
        ELSE LET last == CHOOSE j \in before : \A i \in before : i <= j
             IN  SectionOf(InsightHeaders[HeaderOfLine(Strip(uin[last]))])

BulletLine(k) == ~HeaderLine(k) /\ StartsWithBullet(Strip(uin[k]))

PlainLine(k) == ~HeaderLine(k) /\ ~StartsWithBullet(Strip(uin[k])) /\ Strip(uin[k]) # <<>>

\* the bullet lines met while the section was in force, without their
\* first character, stripped
BulletsOf(section) ==
    LET at == SelectSeq([k \in 1..Len(uin) |-> k],
                        LAMBDA k : BulletLine(k) /\ ActiveAt(k) = section)
    IN  [q \in 1..Len(at) |-> Strip(Tail(Strip(uin[at[q]])))]

\* the plain lines met while the section was in force, joined with spaces
ProseOf(section) ==
    LET at == SelectSeq([k \in 1..Len(uin) |-> k],
                        LAMBDA k : PlainLine(k) /\ ActiveAt(k) = section)
    IN  JoinSpaced([q \in 1..Len(at) |-> Strip(uin[at[q]])])

\* C25: the detailed-insight parser scans the lines with a current section
\* (none, takeaways, impact, details, actions): a header line only switches
\* the section; a bullet line is appended to exactly the active list
\* section, to nothing when none is active; a non-empty plain line is
\* appended to exactly the active prose section, to nothing otherwise; a
\* reply without header gives four empty fields; the parser never raises.
C25_InsightParserIsSectionMachine ==
    ufn = "parse_detailed_insights" =>
       /\ uout.takeaways = BulletsOf("takeaways")
       /\ uout.action_items = BulletsOf("action_items")
       /\ uout.business_impact = ProseOf("business_impact")
       /\ uout.technical_details = ProseOf("technical_details")
       /\ uout.raw_response = uin
       /\ (\A k \in 1..Len(uin) : ~HeaderLine(k)) =>
             uout = [takeaways |-> <<>>, business_impact |-> <<>>,
                     technical_details |-> <<>>, action_items |-> <<>>,
                     raw_response |-> uin]

\* a bullet line and a plain line under the business-impact header: the
\* plain line alone is taken
C25_Witness ==
    /\ ufn = "parse_detailed_insights"
    /\ uin = << <<"business impact:">>, <<"-", " ", "ship", " ", "it">>, <<"costs", " ", "fall">> >>
    /\ uout.business_impact = <<"costs", " ", "fall">>
    /\ uout.takeaways = <<>>
    /\ uout.action_items = <<>>

\* the first selector group of the site that finds the candidate's link in
\* the page
GroupOf(candidate) ==
    LET site == SiteOf(uin.base)
        finds(g) == \E k \in 1..Len(uin.page) :
                       /\ Matches(uin.page[k], Selectors(site)[g])
                       /\ FullUrl(site, uin.base, uin.page[k].href) = candidate.url
                       /\ uin.page[k].text = candidate.title
    IN  CHOOSE g \in 1..Len(Selectors(site)) : finds(g) /\ \A f \in 1..(g - 1) : ~finds(f)

\* C26: the static fetch keeps the links of the first selector group that
\* yields a usable link: no link found by a later group is added.
C26_FirstYieldingGroupOnly ==
    ufn = "find_actual_article_urls" =>
       \A j, k \in 1..Len(uout) : GroupOf(uout[j]) = GroupOf(uout[k])

\* what a strategy gave, nothing if it was not invoked
GotFrom(strategy) ==
    IF Invoked(strategy)
    THEN calls[CHOOSE k \in 1..Len(calls) : calls[k].strategy = strategy].got
    ELSE <<>>

\* C27: the sufficiency test counts raw candidates: the static fetch is
\* invoked iff the feed step left fewer than 5, the rendered fetch iff feed
\* and static fetch together left fewer than 5, counted before the URL pass
\* and with the candidates of empty URL; the rendered fetch may be skipped
\* although the list after the URL pass has fewer than 5.
C27_SufficiencyCountsRawCandidates ==
    /\ Invoked("basic") => Len(GotFrom("rss")) < 5
    /\ Invoked("selenium") => Len(GotFrom("rss")) + Len(GotFrom("basic")) < 5
    /\ ChainOver =>
          /\ Invoked("basic") <=> Len(GotFrom("rss")) < 5
          /\ Invoked("selenium") <=> Len(GotFrom("rss")) + Len(GotFrom("basic")) < 5

\* the feed gave 5 candidates or more with repeated URLs: neither the static
\* nor the rendered fetch was invoked and fewer than 5 candidates are returned
C27_Witness ==
    /\ fpc = "returned"
    /\ ~Invoked("basic")
    /\ ~Invoked("selenium")
    /\ Len(GotFrom("rss")) >= 5
    /\ Len(unique) < 5
    /\ Len(fetched) < 5

\* url.count('/')
RECURSIVE SlashCount(_)
SlashCount(url) ==
    IF url = <<>> THEN 0
    ELSE (CASE Head(url) \in {"https://", "/news/", "/article/", "/2025/", "/2024/", "/ai/"} -> 2
            [] Head(url) \in {"/", "/about", "/contact"} -> 1
            [] OTHER -> 0) + SlashCount(Tail(url))

\* the URL of the k-th link of the page
UrlOfLink(k) == FullUrl(SiteOf(uin.base), uin.base, uin.page[k].href)

\* the k-th link passes the title and exclusion filters
PassesFilters(k) ==
    /\ Len(uin.page[k].text) > 15
    /\ ~ContainsAny(Lower(UrlOfLink(k)), {"/categories/", "/tags/", "/about", "/contact", "javascript:", "#"})

\* the k-th link is one some selector of the site finds
Selected(k) ==
    \E g \in 1..Len(Selectors(SiteOf(uin.base))) : Matches(uin.page[k], Selectors(SiteOf(uin.base))[g])

Returned(url) == \E j \in 1..Len(uout) : uout[j].url = url

\* C28: in the static fetch of ai_news a link that passes the title,
\* duplicate and exclusion filters and holds none of "/news/", "/article/",
\* "/2025/", "/2024/" is accepted iff its URL has at least 4 slashes, and
\* meeting such a link discards none of the usable links collected.
C28_SlashCountDecides ==
    (ufn = "find_actual_article_urls" /\ SiteOf(uin.base) = "ai_news" /\ Len(uin.page) < 15) =>
       \A k \in 1..Len(uin.page) :
          (Selected(k) /\ PassesFilters(k)) =>
             IF ContainsAny(Lower(UrlOfLink(k)), ArticlePatterns)
             THEN Returned(UrlOfLink(k))
             ELSE Returned(UrlOfLink(k)) <=> SlashCount(UrlOfLink(k)) >= 4

\* the k-th candidate handed in has no URL or a listing URL
Skipped(k) == uin.articles[k].url = <<>> \/ Contains(uin.articles[k].url, "/categories/")

\* C29: enhance_articles_with_content returns a list of the same length and
\* order and never changes a candidate's url, source or non-empty title,
\* whether the extraction succeeds, fails or is skipped (empty URL or
\* "/categories/" URL, for which no fetch is issued).
C29_EnhancementKeepsIdentity ==
    ufn = "enhance_articles_with_content" =>
       /\ Len(uout.articles) = Len(uin.articles)
       /\ \A k \in 1..Len(uin.articles) :
             /\ uout.articles[k].url = uin.articles[k].url
             /\ uout.articles[k].source = uin.articles[k].source
             /\ uin.articles[k].title # <<>> => uout.articles[k].title = uin.articles[k].title
             /\ Skipped(k) => uout.articles[k] = uin.articles[k]
       /\ \A e \in 1..Len(uout.wire) :
             uout.wire[e].op = "get" =>
                \E k \in 1..Len(uin.articles) :
                   ~Skipped(k) /\ uout.wire[e].host = Netloc(uin.articles[k].url)
       /\ (\A k \in 1..Len(uin.articles) : Skipped(k)) =>
             \A e \in 1..Len(uout.wire) : uout.wire[e].op # "get"

\* a titled candidate whose page was fetched, one without URL and one whose
\* request failed
C29_Witness ==
    /\ ufn = "enhance_articles_with_content"
    /\ Len(uin.articles) = 3
    /\ uin.articles[1].title = TitleA /\ uout.articles[1].content_extracted = "true"
    /\ uout.articles[1].title = TitleA
    /\ uin.articles[2].url = <<>> /\ uout.articles[2] = uin.articles[2]
    /\ uout.articles[3].content_extracted = "false"
    /\ uout.articles[3].url = uin.articles[3].url

\* the place of a request among those the call sent, 0 if it was not sent
SentAt(request) ==
    IF \E k \in 1..Len(uout.requests) : uout.requests[k] = request
    THEN CHOOSE k \in 1..Len(uout.requests) : uout.requests[k] = request
    ELSE 0

\* C30: generate_response sends the generate request only after both the
\* availability check and the model-presence check of the same call
\* succeeded; if either fails it returns None and sends no generate
\* request; whatever happens it returns a string or None and does not raise.
C30_GenerateOnlyAfterBothChecks ==
    ufn = "generate_response" =>
       /\ SentAt("generate") # 0 =>
             /\ uin.version = "ok" /\ uin.tags = "has_model"
             /\ 0 < SentAt("version") /\ SentAt("version") < SentAt("generate")
             /\ 0 < SentAt("tags") /\ SentAt("tags") < SentAt("generate")
       /\ (uin.version # "ok" \/ uin.tags # "has_model") =>
             /\ SentAt("generate") = 0
             /\ ~uout.reply.some
       /\ ~uout.reply.raised

\* the service is up, the model is missing: no generate request, None
C30_Witness ==
    /\ ufn = "generate_response"
    /\ uin.version = "ok"
    /\ uin.tags = "no_model"
    /\ uin.generate = "ok"
    /\ uout.requests = <<"version", "tags">>
    /\ ~uout.reply.some

====
